---- MODULE Spec2Model ----
(***************************************************************************)
(* Pump actuation state machine and system failsafe supervisor of the      *)
(* Arduino Uno irrigation firmware (src/src/main.cpp).                     *)
(*                                                                         *)
(* Time is the millis() clock in milliseconds.  Code between two delays is *)
(* taken to run in zero time: the clock advances only in LoopDelay, by a   *)
(* duration that stands for everything one loop() iteration spends         *)
(* (delay(100), the 50 ms relay settle delay, serial output, a stalled     *)
(* call).  All stored times are <= now and now <= MaxTime < 2^31, so the   *)
(* unsigned long differences of the code are plain differences here.       *)
(***************************************************************************)
EXTENDS Integers, FiniteSets, Sequences, TLC

\* ---------------------------------------------------------------- constants
NUM_PUMPS == 2
MAX_PUMP_DURATION == 30000
PUMP_COOLDOWN_TIME == 300000
FAILSAFE_PUMP_DURATION == 60000
SYSTEM_HEALTH_CHECK_INTERVAL == 30000
SENSOR_READ_INTERVAL == 2000
STUCK_GRACE_PERIOD == 5000
MAX_DAILY_WATERINGS == 20
MIN_MOISTURE == 0
MAX_MOISTURE == 1023
WATERING_COUNT_MOD == 64
UINT16_MOD == 65536
SETUP_PIN_DELAY == 10
SETUP_FINAL_DELAY == 1000
ESP32_SEND_INTERVAL == 5000
ESP32_INDEX_LIMIT == 4
\* Temperature and humidity in tenths, as LocalSensorData stores them.
MIN_TEMP == -400
MAX_TEMP == 800
MIN_HUMIDITY == 0
MAX_HUMIDITY == 1000
MIN_LIGHT == 0
MAX_LIGHT == 1023
FALLBACK_TEMPERATURE == 225
FALLBACK_HUMIDITY == 600
FALLBACK_LIGHT == 500

\* ------------------------------------------------------------------- bounds
MaxTime == 400000
MaxStat == 1
LiveMargin == 50000

\* Time one loop() iteration may take (ms): a pump-on gap shorter than the
\* capped duration, one beyond the failsafe ceiling, one cooldown period.
Delays == {25000, 61000, 300000}
\* waterDuration values of a LocalAction: the engine's HIGH tier and a
\* request above MAX_PUMP_DURATION.
RequestDurations == {2000, 40000}
\* analogRead() results of a connected moisture probe.
MoistureReadings == {512}
\* A result validateSensorReading rejects.
FaultReadings == {MAX_MOISTURE + 1}
\* What the light pin returns: a daylight value; a value outside the range.
LightReadings == {500}
LightFaultReadings == {MAX_LIGHT + 1}
\* Lines the operator may send on the serial console.
Commands == {"stop", "emergency", "reset", "status"}
NoCommand == "none"

Pumps == 0 .. (NUM_PUMPS - 1)
NoSensor == -1

VARIABLES
    now,                    \* millis()
    pc,                     \* position of the main thread in loop()/serialEvent()
    pumpStates,             \* PumpState pumpStates[2]
    relay,                  \* level driven on RELAY_PINS[i] (LOW = pump on)
    systemFailsafeMode,     \* bool systemFailsafeMode
    sensorFailed,           \* moistureSensorHealth[i].isFailed
    moisturePin,            \* what analogRead(MOISTURE_PINS[i]) returns
    lastSensorRead,         \* unsigned long lastSensorRead
    lastSystemHealthCheck,  \* uint16_t lastSystemHealthCheck
    healthCheckRun,         \* history: {time of the last performSystemHealthCheck}
    stats,                  \* totalDecisions, totalWateringActions, totalAnomalies
    events,                 \* logSystemEvent() calls of the last step
    cycleEnd,               \* history: {time pump i last went Active -> Idle}
    engine,                 \* LocalMLEngine mlEngine (fields the decisions use)
    inference,              \* what the last getImmediateAction call computed
    authorized,             \* history: times of the non-failsafe watering
                            \* decisions returned for sensor i
    lightPin,               \* what analogRead(LIGHT_PIN) returns
    lastESP32Send,          \* unsigned long lastESP32Send
    engineInput,            \* LocalSensorData handed to getImmediateAction
                            \* for sensor i in the last step
    sent,                   \* messages written to esp32Serial in the last step
    lastMessage,            \* history: {time of the last message written
                            \* before the last step}
    lookup,                 \* LookupTable: hasCustomThresholds, customThresholds
    override,               \* history: {moisture threshold last set for a
                            \* plant type and not reset since}
    offered,                \* history: moisture of the readings passed to
                            \* the anomaly detector
    ingested,               \* history: moisture of the readings it stored
    detector,               \* AnomalyDetector: sensorHistory, bufferIndex,
                            \* bufferSize
    verdict,                \* what the last call of the detector returned
    tree                    \* DecisionTree: nodes, nodeCount, rootIndex

vars == <<now, pc, pumpStates, relay, systemFailsafeMode, sensorFailed,
          moisturePin, lastSensorRead, lastSystemHealthCheck, healthCheckRun, stats, events,
          cycleEnd, engine, inference, authorized, lightPin, lastESP32Send,
          engineInput, sent, lastMessage, lookup, override, offered, ingested,
          detector, verdict, tree>>

pumpVars == <<pc, pumpStates, relay, systemFailsafeMode, sensorFailed,
              moisturePin, lastSensorRead, lastSystemHealthCheck, healthCheckRun, stats,
              events, cycleEnd, lightPin, lastESP32Send, engineInput, sent,
              lastMessage>>
decisionVars == <<engine, inference, authorized>>
tableVars == <<lookup, override>>
detectorVars == <<offered, ingested, detector, verdict>>
\* The engine and its components.
engineVars == <<engine, inference, authorized, lookup, override, offered,
                ingested, detector, verdict, tree>>

\* The part of the state the pump functions read and write, as one value.
Machine(ps, rl, sfm, ev) ==
    [pumpStates |-> ps, relay |-> rl, systemFailsafeMode |-> sfm, events |-> ev]

CurrentMachine == Machine(pumpStates, relay, systemFailsafeMode, {})

\* ------------------------------------------------------------ pump functions

logSystemEvent(m, event, sensorIndex) ==
    [m EXCEPT !.events = @ \cup {<<event, sensorIndex>>}]

emergencyStopAllPumps(m) ==
    [m EXCEPT !.pumpStates =
        [i \in Pumps |-> IF m.pumpStates[i].isActive
                         THEN [m.pumpStates[i] EXCEPT !.emergencyStop = TRUE]
                         ELSE m.pumpStates[i]]]

enterSystemFailsafeMode(m) ==
    IF m.systemFailsafeMode
    THEN m
    ELSE logSystemEvent(
            emergencyStopAllPumps([m EXCEPT !.systemFailsafeMode = TRUE]),
            "SYSTEM_FAILSAFE_ACTIVATED", NoSensor)

\* Mutant: escalation needs more than two tripped pumps.
triggerPumpFailsafe_CountAbove2(m, pumpIndex) ==
    LET m1 == [m EXCEPT !.relay[pumpIndex] = "HIGH",
                        !.pumpStates[pumpIndex].isActive = FALSE,
                        !.pumpStates[pumpIndex].failsafeTriggered = TRUE,
                        !.pumpStates[pumpIndex].emergencyStop = TRUE]
        m2 == logSystemEvent(m1, "PUMP_FAILSAFE", pumpIndex)
        failsafeCount ==
            Cardinality({i \in Pumps : m2.pumpStates[i].failsafeTriggered})
    IN  IF failsafeCount > 2 THEN enterSystemFailsafeMode(m2) ELSE m2

triggerPumpFailsafe(m, pumpIndex) ==
    LET m1 == [m EXCEPT !.relay[pumpIndex] = "HIGH",
                        !.pumpStates[pumpIndex].isActive = FALSE,
                        !.pumpStates[pumpIndex].failsafeTriggered = TRUE,
                        !.pumpStates[pumpIndex].emergencyStop = TRUE]
        m2 == logSystemEvent(m1, "PUMP_FAILSAFE", pumpIndex)
        failsafeCount ==
            Cardinality({i \in Pumps : m2.pumpStates[i].failsafeTriggered})
    IN  IF failsafeCount >= 2 THEN enterSystemFailsafeMode(m2) ELSE m2

\* Mutant: a pending emergency stop is served before the ceiling check.
updatePump_EmergencyStopFirst(m, i, currentTime) ==
    LET p == m.pumpStates[i]
        elapsedTime == currentTime - p.startTime
    IN  IF ~p.isActive THEN m
        ELSE IF p.emergencyStop
            THEN logSystemEvent(
                    [m EXCEPT !.relay[i] = "HIGH",
                              !.pumpStates[i].isActive = FALSE,
                              !.pumpStates[i].lastWateringTime = currentTime],
                    "PUMP_EMERGENCY_STOP", i)
        ELSE IF elapsedTime > FAILSAFE_PUMP_DURATION
            THEN triggerPumpFailsafe(m, i)
        ELSE IF elapsedTime >= p.duration
            THEN logSystemEvent(
                    [m EXCEPT !.relay[i] = "HIGH",
                              !.pumpStates[i].isActive = FALSE,
                              !.pumpStates[i].lastWateringTime = currentTime],
                    "PUMP_NORMAL_STOP", i)
        ELSE m

\* Mutant: a normal stop does not record the end of the cycle.
updatePump_NormalStopUnrecorded(m, i, currentTime) ==
    LET p == m.pumpStates[i]
        elapsedTime == currentTime - p.startTime
    IN  IF ~p.isActive THEN m
        ELSE IF elapsedTime > FAILSAFE_PUMP_DURATION
            THEN triggerPumpFailsafe(m, i)
        ELSE IF p.emergencyStop
            THEN logSystemEvent(
                    [m EXCEPT !.relay[i] = "HIGH",
                              !.pumpStates[i].isActive = FALSE,
                              !.pumpStates[i].lastWateringTime = currentTime],
                    "PUMP_EMERGENCY_STOP", i)
        ELSE IF elapsedTime >= p.duration
            THEN logSystemEvent(
                    [m EXCEPT !.relay[i] = "HIGH",
                              !.pumpStates[i].isActive = FALSE],
                    "PUMP_NORMAL_STOP", i)
        ELSE m

\* One iteration of the for loop of updatePumpStates.
updatePump(m, i, currentTime) ==
    LET p == m.pumpStates[i]
        elapsedTime == currentTime - p.startTime
    IN  IF ~p.isActive THEN m
        ELSE IF elapsedTime > FAILSAFE_PUMP_DURATION
            THEN triggerPumpFailsafe(m, i)
        ELSE IF p.emergencyStop
            THEN logSystemEvent(
                    [m EXCEPT !.relay[i] = "HIGH",
                              !.pumpStates[i].isActive = FALSE,
                              !.pumpStates[i].lastWateringTime = currentTime],
                    "PUMP_EMERGENCY_STOP", i)
        ELSE IF elapsedTime >= p.duration
            THEN logSystemEvent(
                    [m EXCEPT !.relay[i] = "HIGH",
                              !.pumpStates[i].isActive = FALSE,
                              !.pumpStates[i].lastWateringTime = currentTime],
                    "PUMP_NORMAL_STOP", i)
        ELSE IF elapsedTime > p.duration + STUCK_GRACE_PERIOD
            THEN triggerPumpFailsafe(m, i)
        ELSE m

RECURSIVE updatePumpsFrom(_, _, _)
updatePumpsFrom(m, i, currentTime) ==
    IF i >= NUM_PUMPS THEN m
    ELSE updatePumpsFrom(updatePump(m, i, currentTime), i + 1, currentTime)

\* Mutant: the tick leaves the pumps unchecked.
updatePumpStates_Skipped(m, currentTime) == m

\* Mutant: the loop stops one pump short.
updatePumpStates_FirstPumpOnly(m, currentTime) == updatePump(m, 0, currentTime)

updatePumpStates(m, currentTime) == updatePumpsFrom(m, 0, currentTime)

checkPumpFailsafe(m, pumpIndex, currentTime) ==
    /\ ~(currentTime - m.pumpStates[pumpIndex].lastWateringTime < PUMP_COOLDOWN_TIME)
    /\ ~(m.pumpStates[pumpIndex].wateringCount > MAX_DAILY_WATERINGS)

validatePumpOperation(m, failed, pumpIndex, currentTime) ==
    /\ checkPumpFailsafe(m, pumpIndex, currentTime)
    /\ ~failed[pumpIndex]

Min(a, b) == IF a < b THEN a ELSE b

constrain(x, lo, hi) == IF x < lo THEN lo ELSE IF x > hi THEN hi ELSE x

\* Mutant: the requested duration is taken as it is.
startPump_Uncapped(m, sensorIndex, waterDuration, currentTime) ==
    logSystemEvent(
        [m EXCEPT !.pumpStates[sensorIndex] =
                      [@ EXCEPT !.isActive = TRUE,
                                !.startTime = currentTime,
                                !.duration = waterDuration,
                                !.emergencyStop = FALSE,
                                !.failsafeTriggered = FALSE,
                                !.wateringCount = (@ + 1) % WATERING_COUNT_MOD],
                  !.relay[sensorIndex] = "LOW"],
        "PUMP_STARTED", sensorIndex)

\* executeWateringAction past its checks: cap the duration, start the cycle.
startPump(m, sensorIndex, waterDuration, currentTime) ==
    logSystemEvent(
        [m EXCEPT !.pumpStates[sensorIndex] =
                      [@ EXCEPT !.isActive = TRUE,
                                !.startTime = currentTime,
                                !.duration = Min(waterDuration, MAX_PUMP_DURATION),
                                !.emergencyStop = FALSE,
                                !.failsafeTriggered = FALSE,
                                !.wateringCount = (@ + 1) % WATERING_COUNT_MOD],
                  !.relay[sensorIndex] = "LOW"],
        "PUMP_STARTED", sensorIndex)

\* Mutant: the failsafe-mode check is missing.
executeWateringAction_NoModeCheck(m, failed, sensorIndex, waterDuration, currentTime) ==
    IF m.pumpStates[sensorIndex].isActive
        THEN logSystemEvent(m, "WATERING_BLOCKED_ACTIVE", sensorIndex)
    ELSE IF ~validatePumpOperation(m, failed, sensorIndex, currentTime)
        THEN m
    ELSE startPump(m, sensorIndex, waterDuration, currentTime)

\* Mutant: the already-active check is missing.
executeWateringAction_NoActiveCheck(m, failed, sensorIndex, waterDuration, currentTime) ==
    IF m.systemFailsafeMode
        THEN logSystemEvent(m, "WATERING_BLOCKED_FAILSAFE", sensorIndex)
    ELSE IF ~validatePumpOperation(m, failed, sensorIndex, currentTime)
        THEN m
    ELSE startPump(m, sensorIndex, waterDuration, currentTime)

executeWateringAction(m, failed, sensorIndex, waterDuration, currentTime) ==
    IF m.systemFailsafeMode
        THEN logSystemEvent(m, "WATERING_BLOCKED_FAILSAFE", sensorIndex)
    ELSE IF m.pumpStates[sensorIndex].isActive
        THEN logSystemEvent(m, "WATERING_BLOCKED_ACTIVE", sensorIndex)
    ELSE IF ~validatePumpOperation(m, failed, sensorIndex, currentTime)
        THEN m
    ELSE startPump(m, sensorIndex, waterDuration, currentTime)

\* Mutant: the shutdown updates the records and leaves the relays alone.
performEmergencyShutdown_RelaysUntouched(m) ==
    LET m1 == [m EXCEPT !.pumpStates =
                            [i \in Pumps |-> [m.pumpStates[i] EXCEPT
                                                  !.isActive = FALSE,
                                                  !.emergencyStop = TRUE]]]
    IN  logSystemEvent(enterSystemFailsafeMode(m1), "EMERGENCY_SHUTDOWN", NoSensor)

performEmergencyShutdown(m) ==
    LET m1 == [m EXCEPT !.relay = [i \in Pumps |-> "HIGH"],
                        !.pumpStates =
                            [i \in Pumps |-> [m.pumpStates[i] EXCEPT
                                                  !.isActive = FALSE,
                                                  !.emergencyStop = TRUE]]]
    IN  logSystemEvent(enterSystemFailsafeMode(m1), "EMERGENCY_SHUTDOWN", NoSensor)

\* ------------------------------------------------------------------ sensors

validateSensorReading(value, minVal, maxVal) ==
    ~(value < minVal \/ value > maxVal)

\* updateSensorHealth: lastValidReading is written but never read by the
\* firmware and is not kept.
updateSensorHealth(failed, sensorIndex, isValid) ==
    [failed EXCEPT ![sensorIndex] = ~isValid]

Bump(c) == IF c < MaxStat THEN c + 1 ELSE c

\* Input of one processSensor call: the analog reading and the LocalAction
\* and anomaly verdict the engine returns for it.
SensorInputs ==
    [moisture : MoistureReadings \cup FaultReadings, shouldWater : {FALSE},
     waterDuration : {0}, anomaly : BOOLEAN]
    \cup
    [moisture : MoistureReadings \cup FaultReadings, shouldWater : {TRUE},
     waterDuration : RequestDurations, anomaly : BOOLEAN]

\* readTemperature() and readHumidity() of the MEMORY_OPTIMIZED build.
readTemperature == 225
readHumidity == 600

\* Values the temperature, humidity and lightLevel parameters of
\* processSensor can take: in range, and above the range.
EnvironmentValues ==
    [temperature : {readTemperature, MAX_TEMP + 1},
     humidity : {readHumidity, MAX_HUMIDITY + 1},
     lightLevel : LightReadings \cup LightFaultReadings]

\* Mutant: the environmental values are used as they were read.
buildSensorData_NoFallback(moisture, env) ==
    [moisture |-> moisture, temperature |-> env.temperature,
     humidity |-> env.humidity, lightLevel |-> env.lightLevel]

\* processSensor: fallback values for the non-critical channels, then the
\* LocalSensorData structure.
buildSensorData(moisture, env) ==
    [moisture |-> moisture,
     temperature |->
        IF validateSensorReading(env.temperature, MIN_TEMP, MAX_TEMP)
        THEN env.temperature ELSE FALLBACK_TEMPERATURE,
     humidity |->
        IF validateSensorReading(env.humidity, MIN_HUMIDITY, MAX_HUMIDITY)
        THEN env.humidity ELSE FALLBACK_HUMIDITY,
     lightLevel |->
        IF validateSensorReading(env.lightLevel, MIN_LIGHT, MAX_LIGHT)
        THEN env.lightLevel ELSE FALLBACK_LIGHT]

\* Mutant: every call writes its message.
sendDataToESP32_Unlimited(link, sensorIndex, data, shouldWater, currentTime) ==
    [lastESP32Send |-> currentTime,
     sent |-> Append(link.sent,
                     [s |-> sensorIndex + 1, m |-> data.moisture,
                      l |-> data.lightLevel,
                      w |-> IF shouldWater THEN 1 ELSE 0, at |-> currentTime])]

\* sendDataToESP32 on the pair <<lastESP32Send, messages written>>; `at`
\* stamps the message with the time it was written.
sendDataToESP32(link, sensorIndex, data, shouldWater, currentTime) ==
    IF currentTime - link.lastESP32Send < ESP32_SEND_INTERVAL THEN link
    ELSE IF sensorIndex < 0 \/ sensorIndex >= ESP32_INDEX_LIMIT
        THEN [link EXCEPT !.lastESP32Send = currentTime]
    ELSE [lastESP32Send |-> currentTime,
          sent |-> Append(link.sent,
                          [s |-> sensorIndex + 1,
                           m |-> constrain(data.moisture, 0, 1023),
                           l |-> constrain(data.lightLevel, 0, 1023),
                           w |-> IF shouldWater THEN 1 ELSE 0,
                           at |-> currentTime])]

\* processSensor on the record of what it reads and writes: machine, failed
\* flags, stats, engine input, ESP32 link.
processSensor(s, sensorIndex, in, env, currentTime) ==
    LET validMoisture ==
            validateSensorReading(in.moisture, MIN_MOISTURE, MAX_MOISTURE)
        failed1 == updateSensorHealth(s.failed, sensorIndex, validMoisture)
        sensorData == buildSensorData(in.moisture, env)
    IN  IF failed1[sensorIndex] \/ ~validMoisture
        THEN [s EXCEPT !.failed = failed1]
        ELSE [m |-> IF in.shouldWater
                    THEN executeWateringAction(s.m, failed1, sensorIndex,
                                               in.waterDuration, currentTime)
                    ELSE s.m,
              failed |-> failed1,
              stats |-> [totalDecisions |-> Bump(s.stats.totalDecisions),
                         totalWateringActions |->
                            IF in.shouldWater
                            THEN Bump(s.stats.totalWateringActions)
                            ELSE s.stats.totalWateringActions,
                         totalAnomalies |->
                            IF in.anomaly
                            THEN Bump(s.stats.totalAnomalies)
                            ELSE s.stats.totalAnomalies],
              input |-> [s.input EXCEPT ![sensorIndex] = {sensorData}],
              link |-> sendDataToESP32(s.link, sensorIndex, sensorData,
                                       in.shouldWater, currentTime)]

\* processAllSensors: the environmental channels are read once.
processAllSensors(s, in0, in1, light, currentTime) ==
    LET env == [temperature |-> readTemperature, humidity |-> readHumidity,
                lightLevel |-> light]
    IN  processSensor(processSensor(s, 0, in0, env, currentTime),
                      1, in1, env, currentTime)

\* ------------------------------------------------------------------ gateway
\* Keys of the JSON document sendDataToESP32 serialises.
telemetryKeys(shouldWater) ==
    {"s", "m", "t", "h", "l", "w"} \cup (IF shouldWater THEN {"a"} ELSE {})

\* Keys parseArduinoData of the ESP32 gateway requires in a document.
GATEWAY_REQUIRED_KEYS == {"sensor", "moisture"}

\* parseArduinoData up to its required-field validation: TRUE when the
\* document goes on to edgeAI.addSensorData.  serializeJson followed by
\* deserializeJson keeps the keys of a document.
parseArduinoData(keys) ==
    ~(\E k \in GATEWAY_REQUIRED_KEYS : k \notin keys)

\* ---------------------------------------------------------- decision engine
\* Floats are kept as exact fractions: a feature score s is the integer
\* s * 10 * SCORE_UNIT, a tree output p is p * 1000, a moisture threshold t
\* is t * 10, an adjusted prediction a is a * 10000, temperature is in
\* tenths of a degree.  Inputs are chosen off the comparison boundaries, so
\* float rounding does not decide any branch.
ENGINE_SLOTS == 4
MS_PER_HOUR == 3600000
MIN_WATERING_INTERVAL == 6 * MS_PER_HOUR
TIME_SCORE_HOURS == 48
ANOMALY_BUFFER_SIZE == 24
MIN_SAMPLES == 5
\* lcm(1023, 300, 100, 48): every normalised feature is a multiple of 1/SCORE_UNIT.
SCORE_UNIT == 409200
NO_WATER == 0
LOW_WATER == 1
MEDIUM_WATER == 2
HIGH_WATER == 3
ML_PER_UNIT == 50
FAILSAFE_WATER_AMOUNT == 100

EngineSlots == 0 .. (ENGINE_SLOTS - 1)

\* PLANT_DATABASE: moistureThreshold, and the five stage modifiers in tenths.
PLANT_DATABASE ==
    [TOMATO |-> [moistureThreshold |-> 400,
        modifier |->
            [SEEDLING |-> 8, VEGETATIVE |-> 10, FLOWERING |-> 12,
             FRUITING |-> 13, MATURE |-> 10]],
     LETTUCE |-> [moistureThreshold |-> 350,
        modifier |->
            [SEEDLING |-> 9, VEGETATIVE |-> 10, FLOWERING |-> 11,
             FRUITING |-> 8, MATURE |-> 7]],
     BASIL |-> [moistureThreshold |-> 380,
        modifier |->
            [SEEDLING |-> 8, VEGETATIVE |-> 10, FLOWERING |-> 12,
             FRUITING |-> 11, MATURE |-> 9]],
     MINT |-> [moistureThreshold |-> 300,
        modifier |->
            [SEEDLING |-> 9, VEGETATIVE |-> 10, FLOWERING |-> 11,
             FRUITING |-> 10, MATURE |-> 8]],
     PEPPER |-> [moistureThreshold |-> 420,
        modifier |->
            [SEEDLING |-> 8, VEGETATIVE |-> 10, FLOWERING |-> 13,
             FRUITING |-> 14, MATURE |-> 11]],
     ROSE |-> [moistureThreshold |-> 450,
        modifier |->
            [SEEDLING |-> 7, VEGETATIVE |-> 10, FLOWERING |-> 14,
             FRUITING |-> 12, MATURE |-> 10]],
     SUNFLOWER |-> [moistureThreshold |-> 500,
        modifier |->
            [SEEDLING |-> 8, VEGETATIVE |-> 10, FLOWERING |-> 15,
             FRUITING |-> 13, MATURE |-> 11]],
     MARIGOLD |-> [moistureThreshold |-> 400,
        modifier |->
            [SEEDLING |-> 9, VEGETATIVE |-> 10, FLOWERING |-> 12,
             FRUITING |-> 11, MATURE |-> 8]],
     PETUNIA |-> [moistureThreshold |-> 350,
        modifier |->
            [SEEDLING |-> 8, VEGETATIVE |-> 10, FLOWERING |-> 13,
             FRUITING |-> 11, MATURE |-> 9]],
     DAISY |-> [moistureThreshold |-> 370,
        modifier |->
            [SEEDLING |-> 9, VEGETATIVE |-> 10, FLOWERING |-> 11,
             FRUITING |-> 10, MATURE |-> 8]],
     STRAWBERRY |-> [moistureThreshold |-> 380,
        modifier |->
            [SEEDLING |-> 8, VEGETATIVE |-> 10, FLOWERING |-> 12,
             FRUITING |-> 14, MATURE |-> 12]],
     BLUEBERRY |-> [moistureThreshold |-> 400,
        modifier |->
            [SEEDLING |-> 7, VEGETATIVE |-> 10, FLOWERING |-> 13,
             FRUITING |-> 15, MATURE |-> 13]],
     RASPBERRY |-> [moistureThreshold |-> 390,
        modifier |->
            [SEEDLING |-> 8, VEGETATIVE |-> 10, FLOWERING |-> 12,
             FRUITING |-> 14, MATURE |-> 12]],
     GRAPE |-> [moistureThreshold |-> 450,
        modifier |->
            [SEEDLING |-> 6, VEGETATIVE |-> 10, FLOWERING |-> 14,
             FRUITING |-> 16, MATURE |-> 14]],
     CACTUS |-> [moistureThreshold |-> 800,
        modifier |->
            [SEEDLING |-> 5, VEGETATIVE |-> 10, FLOWERING |-> 11,
             FRUITING |-> 10, MATURE |-> 9]],
     SUCCULENT |-> [moistureThreshold |-> 750,
        modifier |->
            [SEEDLING |-> 6, VEGETATIVE |-> 10, FLOWERING |-> 10,
             FRUITING |-> 9, MATURE |-> 8]],
     FERN |-> [moistureThreshold |-> 250,
        modifier |->
            [SEEDLING |-> 10, VEGETATIVE |-> 10, FLOWERING |-> 10,
             FRUITING |-> 9, MATURE |-> 8]],
     ORCHID |-> [moistureThreshold |-> 300,
        modifier |->
            [SEEDLING |-> 9, VEGETATIVE |-> 10, FLOWERING |-> 12,
             FRUITING |-> 11, MATURE |-> 10]],
     BAMBOO |-> [moistureThreshold |-> 350,
        modifier |->
            [SEEDLING |-> 8, VEGETATIVE |-> 10, FLOWERING |-> 11,
             FRUITING |-> 10, MATURE |-> 9]],
     LAVENDER |-> [moistureThreshold |-> 500,
        modifier |->
            [SEEDLING |-> 7, VEGETATIVE |-> 10, FLOWERING |-> 13,
             FRUITING |-> 12, MATURE |-> 10]]]

PlantTypes == DOMAIN PLANT_DATABASE
GrowthStages == {"SEEDLING", "VEGETATIVE", "FLOWERING", "FRUITING", "MATURE"}
\* A PlantType value outside 0 .. 19.
INVALID_PLANT == "NONE"
\* What getMoistureThreshold returns for an invalid plant type, in tenths.
DEFAULT_THRESHOLD == 4000

isValidPlantType(type) == type \in PlantTypes

\* LookupTable(): no custom thresholds.
LookupTableAfterConstruction ==
    [hasCustomThresholds |-> [type \in PlantTypes |-> FALSE],
     customThresholds |-> [type \in PlantTypes |-> 0]]

\* LookupTable::updateThresholds (the moisture column).
updateThresholds(table, type, moistureThreshold) ==
    IF ~isValidPlantType(type) THEN table
    ELSE [hasCustomThresholds |-> [table.hasCustomThresholds EXCEPT ![type] = TRUE],
          customThresholds |->
              [table.customThresholds EXCEPT ![type] = moistureThreshold]]

\* LookupTable::resetToDefaults.
resetToDefaults(table, type) ==
    IF ~isValidPlantType(type) THEN table
    ELSE [table EXCEPT !.hasCustomThresholds[type] = FALSE]

\* setup(): setPlantType / setGrowthStage for the channels loop() processes.
plantTypes == [i \in Pumps |-> IF i = 0 THEN "TOMATO" ELSE "LETTUCE"]
growthStages == [i \in Pumps |-> "VEGETATIVE"]

getStageModifier(type, stage) == PLANT_DATABASE[type].modifier[stage]

\* Mutant: a custom threshold is returned without the stage modifier.
LookupTable_getMoistureThreshold_CustomUnscaled(table, type, stage) ==
    IF ~isValidPlantType(type) THEN DEFAULT_THRESHOLD
    ELSE IF table.hasCustomThresholds[type]
        THEN table.customThresholds[type] * 10
    ELSE PLANT_DATABASE[type].moistureThreshold * getStageModifier(type, stage)

\* LookupTable::getMoistureThreshold, in tenths: baseThreshold * modifier.
LookupTable_getMoistureThreshold(table, type, stage) ==
    IF ~isValidPlantType(type) THEN DEFAULT_THRESHOLD
    ELSE LET baseThreshold ==
                 IF table.hasCustomThresholds[type]
                 THEN table.customThresholds[type]
                 ELSE PLANT_DATABASE[type].moistureThreshold
         IN  baseThreshold * getStageModifier(type, stage)

\* LocalMLEngine::getMoistureThreshold: the firmware never calls
\* updatePlantThresholds, the engine's table is as constructed.
getMoistureThreshold(type, stage) ==
    LookupTable_getMoistureThreshold(LookupTableAfterConstruction, type, stage)

calculateFeatureScore(data) ==
    LET moistureScore ==
            constrain(data.moisture * (SCORE_UNIT \div 1023), 0, SCORE_UNIT)
        tempScore ==
            constrain((data.temperature - 100) * (SCORE_UNIT \div 300), 0, SCORE_UNIT)
        humidityScore ==
            constrain(data.humidity * (SCORE_UNIT \div 100), 0, SCORE_UNIT)
        lightScore ==
            constrain(data.lightLevel * (SCORE_UNIT \div 1023), 0, SCORE_UNIT)
        timeScore ==
            constrain(data.lastWatered * (SCORE_UNIT \div TIME_SCORE_HOURS),
                      0, SCORE_UNIT)
    IN  moistureScore * 4 + tempScore * 2 + humidityScore * 2
            + lightScore + timeScore

MAX_TREE_NODES == 127

TreeNode(featureIndex, threshold, leftChild, rightChild, value) ==
    [featureIndex |-> featureIndex, threshold |-> threshold,
     leftChild |-> leftChild, rightChild |-> rightChild, value |-> value]

\* loadDefaultTree: thresholds in tenths, leaf values in thousandths.
irrigationTree ==
    [nodeCount |-> 7, rootIndex |-> 1,
     nodes |-> <<TreeNode("MOISTURE", 6, 2, 3, 0),
                 TreeNode("TEMPERATURE", 7, 4, 5, 0),
                 TreeNode("TIME", 5, 6, 7, 0),
                 TreeNode("MOISTURE", 0, 0, 0, 800),
                 TreeNode("MOISTURE", 0, 0, 0, 600),
                 TreeNode("MOISTURE", 0, 0, 0, 300),
                 TreeNode("MOISTURE", 0, 0, 0, 0)>>]

RECURSIVE traverseTree(_, _)
traverseTree(nodeIndex, features) ==
    IF nodeIndex = 0 \/ nodeIndex > irrigationTree.nodeCount THEN 0
    ELSE LET node == irrigationTree.nodes[nodeIndex]
         IN  IF node.leftChild = 0 /\ node.rightChild = 0 THEN node.value
             ELSE IF features[node.featureIndex] <= node.threshold * SCORE_UNIT
                 THEN traverseTree(node.leftChild, features)
             ELSE traverseTree(node.rightChild, features)

\* predict(float featureScore): the score stands in for the moisture
\* feature, the other features are the constant 0.5.
predict(featureScore) ==
    IF irrigationTree.nodeCount = 0 \/ irrigationTree.rootIndex = 0 THEN 0
    ELSE traverseTree(irrigationTree.rootIndex,
                      [MOISTURE |-> featureScore,
                       TEMPERATURE |-> 5 * SCORE_UNIT,
                       TIME |-> 5 * SCORE_UNIT])

\* Mutant: the tree output is scaled by the threshold relative to 400.
predictWaterNeed_Relative(data) ==
    (predict(calculateFeatureScore(data))
        * getMoistureThreshold(data.plantType, data.growthStage)) \div 400

\* In ten-thousandths: prediction * threshold.
predictWaterNeed(data) ==
    predict(calculateFeatureScore(data))
        * getMoistureThreshold(data.plantType, data.growthStage)

mapToWaterAmount(prediction) ==
    IF prediction > 7500 THEN HIGH_WATER
    ELSE IF prediction > 5000 THEN MEDIUM_WATER
    ELSE IF prediction > 2500 THEN LOW_WATER
    ELSE NO_WATER

calculateWaterDuration(amount) ==
    IF amount = LOW_WATER THEN 500
    ELSE IF amount = MEDIUM_WATER THEN 1000
    ELSE IF amount = HIGH_WATER THEN 2000
    ELSE 0

\* Mutant: the re-watering interval is not enforced.
isTimeToWater_Always(e, sensorIndex, currentTime) == TRUE

isTimeToWater(e, sensorIndex, currentTime) ==
    IF e.lastWateringTime[sensorIndex] = 0 THEN TRUE
    ELSE currentTime - e.lastWateringTime[sensorIndex] > MIN_WATERING_INTERVAL

\* Mutant: the timestamp is written to every slot.
recordWatering_AllSlots(e, sensorIndex, timestamp) ==
    IF sensorIndex >= 0 /\ sensorIndex < ENGINE_SLOTS
    THEN [e EXCEPT !.lastWateringTime = [i \in EngineSlots |-> timestamp]]
    ELSE e

recordWatering(e, sensorIndex, timestamp) ==
    IF sensorIndex >= 0 /\ sensorIndex < ENGINE_SLOTS
    THEN [e EXCEPT !.lastWateringTime[sensorIndex] = timestamp]
    ELSE e

\* AnomalyDetector::addToBuffer, of which the sample count is kept.
addToBuffer(e) ==
    [e EXCEPT !.bufferSize = IF @ < ANOMALY_BUFFER_SIZE THEN @ + 1 ELSE @]

\* AnomalyDetector::isSensorDisconnected (temperature in tenths).
isSensorDisconnected(data) ==
    \/ data.moisture <= 5 \/ data.moisture >= 1018
    \/ data.temperature <= -500 \/ data.temperature >= 800
    \/ data.humidity <= 1 \/ data.humidity >= 99
    \/ data.lightLevel <= 5 \/ data.lightLevel >= 1018

\* AnomalyDetector::isSensorOutOfRange (temperature in tenths).
isSensorOutOfRange(data) ==
    \/ data.moisture < 0 \/ data.moisture > 1023
    \/ data.temperature < -400 \/ data.temperature > 700
    \/ data.humidity < 0 \/ data.humidity > 100
    \/ data.lightLevel < 0 \/ data.lightLevel > 1023

\* AnomalyDetector::isSensorFault; no function of the engine calls it.
isSensorFault(data, scoreAbove) ==
    isSensorDisconnected(data) \/ isSensorOutOfRange(data) \/ scoreAbove

\* detectAnomaly on the engine whose buffer already holds the sample:
\* calculateAnomalyScore returns 0.0 below MIN_SAMPLES samples; above, the
\* score is a function of the window's z-scores, and scoreAbove says whether
\* it exceeds 0.997.
detectAnomaly(e, scoreAbove) ==
    IF e.bufferSize >= MIN_SAMPLES THEN scoreAbove ELSE FALSE

DefaultAction ==
    [shouldWater |-> FALSE, waterDuration |-> 0, waterAmount |-> 0,
     isFailsafe |-> FALSE]

\* SensorData(): the default-constructed reading.
DefaultReading ==
    [moisture |-> 0, temperature |-> 250, humidity |-> 50, lightLevel |-> 500]

NoInference ==
    [sensorIndex |-> NoSensor, reading |-> DefaultReading,
     lastWatered |-> 0, plantType |-> "TOMATO", growthStage |-> "VEGETATIVE",
     anomaly |-> FALSE,
     failsafeEnabled |-> TRUE, pipeline |-> FALSE, threshold |-> 0,
     rawPrediction |-> 0, waterNeed |-> 0, amount |-> NO_WATER,
     timeChecked |-> FALSE, recorded |-> FALSE, action |-> DefaultAction]

\* Mutant: the failsafe watering ignores the moisture threshold.
anomalyAction_NoThresholdCheck(e, data) ==
    IF e.failsafeEnabled
    THEN [shouldWater |-> TRUE,
          waterDuration |-> calculateWaterDuration(MEDIUM_WATER),
          waterAmount |-> FAILSAFE_WATER_AMOUNT, isFailsafe |-> TRUE]
    ELSE DefaultAction

\* getImmediateAction, the branch taken when detectAnomaly is true.
anomalyAction(e, data) ==
    IF /\ e.failsafeEnabled
       /\ data.moisture * 100
            > getMoistureThreshold(data.plantType, data.growthStage) * 12
    THEN [shouldWater |-> TRUE,
          waterDuration |-> calculateWaterDuration(MEDIUM_WATER),
          waterAmount |-> FAILSAFE_WATER_AMOUNT, isFailsafe |-> TRUE]
    ELSE DefaultAction

\* getImmediateAction: the new engine state and the record of the call.
getImmediateAction(e, sensorIndex, reading, scoreAbove, currentTime) ==
    IF sensorIndex < 0 \/ sensorIndex >= ENGINE_SLOTS
    THEN [engine |-> e,
          inference |-> [NoInference EXCEPT !.sensorIndex = sensorIndex,
                                            !.reading = reading]]
    ELSE
    LET modifiedData ==
            [moisture |-> reading.moisture,
             temperature |-> reading.temperature,
             humidity |-> reading.humidity,
             lightLevel |-> reading.lightLevel,
             plantType |-> plantTypes[sensorIndex],
             growthStage |-> growthStages[sensorIndex],
             lastWatered |->
                (currentTime - e.lastWateringTime[sensorIndex]) \div MS_PER_HOUR]
        e1 == addToBuffer(e)
        info == [NoInference EXCEPT
                    !.sensorIndex = sensorIndex,
                    !.reading = reading,
                    !.lastWatered = modifiedData.lastWatered,
                    !.plantType = modifiedData.plantType,
                    !.growthStage = modifiedData.growthStage,
                    !.failsafeEnabled = e.failsafeEnabled,
                    !.threshold = getMoistureThreshold(modifiedData.plantType,
                                                       modifiedData.growthStage)]
    IN  IF detectAnomaly(e1, scoreAbove)
        THEN [engine |-> e1,
              inference |-> [info EXCEPT !.anomaly = TRUE,
                                         !.action = anomalyAction(e1, modifiedData)]]
        ELSE
        LET waterNeed == predictWaterNeed(modifiedData)
            amount == mapToWaterAmount(waterNeed)
            info1 == [info EXCEPT
                        !.pipeline = TRUE,
                        !.rawPrediction = predict(calculateFeatureScore(modifiedData)),
                        !.waterNeed = waterNeed,
                        !.amount = amount,
                        !.timeChecked = amount > NO_WATER]
        IN  IF amount > NO_WATER /\ isTimeToWater(e1, sensorIndex, currentTime)
            THEN [engine |-> recordWatering(e1, sensorIndex, currentTime),
                  inference |->
                     [info1 EXCEPT !.recorded = TRUE, !.action =
                        [shouldWater |-> TRUE,
                         waterDuration |-> calculateWaterDuration(amount),
                         waterAmount |-> amount * ML_PER_UNIT,
                         isFailsafe |-> FALSE]]]
            ELSE [engine |-> e1, inference |-> info1]

\* The engine when setup() returns.
EngineAfterSetup ==
    [lastWateringTime |-> [i \in EngineSlots |-> 0],
     failsafeEnabled |-> TRUE,
     bufferSize |-> 0]

\* ------------------------------------------------------------ decision tree
\* DecisionTree::addNode.  Only the index of the node is validated.
addNode(t, index, featureIndex, threshold, leftChild, rightChild, value) ==
    IF index = 0 \/ index >= MAX_TREE_NODES THEN t
    ELSE [t EXCEPT !.nodes[index] = TreeNode(featureIndex, threshold,
                                             leftChild, rightChild, value),
                   !.nodeCount = IF index > @ THEN index ELSE @]

setRootIndex(t, index) == [t EXCEPT !.rootIndex = index]

\* The outcomes of a traversal: a value returned from a leaf, 0.0 returned
\* for an invalid node index, or a recursion that does not end.
FromLeaf(value) == [returns |-> TRUE, leaf |-> TRUE, value |-> value]
FromInvalidNode == [returns |-> TRUE, leaf |-> FALSE, value |-> 0]
NoReturn == [returns |-> FALSE, leaf |-> FALSE, value |-> 0]

\* DecisionTree::traverseTree on a loaded tree.  The walk is a function of
\* the tree and the features: one that visits more nodes than the tree has
\* visits a node twice and recurses until the stack is exhausted, which
\* `calls` = 0 stands for.
RECURSIVE DecisionTree_traverseTree(_, _, _, _)
DecisionTree_traverseTree(t, nodeIndex, features, calls) ==
    IF nodeIndex = 0 \/ nodeIndex > t.nodeCount THEN FromInvalidNode
    ELSE IF calls = 0 THEN NoReturn
    ELSE LET node == t.nodes[nodeIndex]
         IN  IF node.leftChild = 0 /\ node.rightChild = 0
             THEN FromLeaf(node.value)
             ELSE IF features[node.featureIndex] <= node.threshold * SCORE_UNIT
                 THEN DecisionTree_traverseTree(t, node.leftChild, features,
                                                calls - 1)
             ELSE DecisionTree_traverseTree(t, node.rightChild, features,
                                            calls - 1)

\* DecisionTree::predict(float featureScore) on a loaded tree.
DecisionTree_predict(t, featureScore) ==
    IF t.nodeCount = 0 \/ t.rootIndex = 0 THEN FromInvalidNode
    ELSE DecisionTree_traverseTree(t, t.rootIndex,
                                   [MOISTURE |-> featureScore,
                                    TEMPERATURE |-> 5 * SCORE_UNIT,
                                    TIME |-> 5 * SCORE_UNIT],
                                   t.nodeCount)

\* --------------------------------------------------------- anomaly detector
ANOMALY_THRESHOLD == 3
\* calculateAnomalyScore > 0.997 means 0.5 * (1 + tanh(maxZ / sqrt(2)))
\* > 0.997, which is maxZ > sqrt(2) * atanh(0.994) = 4.10556..., which is
\* maxZ^2 > 16.8556...: the bound as a fraction.
SCORE_Z2_NUM == 168556
SCORE_Z2_DEN == 10000

Channels == {"moisture", "temperature", "humidity", "lightLevel"}
BufferSlots == 0 .. (ANOMALY_BUFFER_SIZE - 1)

\* AnomalyDetector(): an empty buffer of default readings.
AnomalyDetectorAfterConstruction ==
    [sensorHistory |-> [k \in BufferSlots |-> DefaultReading],
     bufferIndex |-> 0, bufferSize |-> 0]

\* Mutant: the write index is not wrapped.
AnomalyDetector_addToBuffer_NoWrap(d, data) ==
    [sensorHistory |-> [k \in BufferSlots |->
                          IF k = d.bufferIndex THEN data ELSE d.sensorHistory[k]],
     bufferIndex |-> d.bufferIndex + 1,
     bufferSize |-> IF d.bufferSize < ANOMALY_BUFFER_SIZE
                    THEN d.bufferSize + 1 ELSE d.bufferSize]

\* AnomalyDetector::addToBuffer with the buffer's contents.
AnomalyDetector_addToBuffer(d, data) ==
    [sensorHistory |-> [k \in BufferSlots |->
                          IF k = d.bufferIndex THEN data ELSE d.sensorHistory[k]],
     bufferIndex |-> (d.bufferIndex + 1) % ANOMALY_BUFFER_SIZE,
     bufferSize |-> IF d.bufferSize < ANOMALY_BUFFER_SIZE
                    THEN d.bufferSize + 1 ELSE d.bufferSize]

\* extractSensorValues and the sums of calculateStats, for one channel over
\* the first `count` slots.
RECURSIVE channelSum(_, _, _)
channelSum(history, channel, count) ==
    IF count = 0 THEN 0
    ELSE history[count - 1][channel] + channelSum(history, channel, count - 1)

RECURSIVE channelSquareSum(_, _, _)
channelSquareSum(history, channel, count) ==
    IF count = 0 THEN 0
    ELSE history[count - 1][channel] * history[count - 1][channel]
            + channelSquareSum(history, channel, count - 1)

\* calculateStats without the divisions: mean = sum / count and
\* variance = scaledVariance / count^2 (the population variance).
calculateStats(history, channel, count) ==
    LET sum == channelSum(history, channel, count)
    IN  [count |-> count, sum |-> sum,
         scaledVariance |->
            count * channelSquareSum(history, channel, count) - sum * sum]

\* a / b > c / d for a, c >= 0 and b, d > 0, by comparing the continued
\* fractions, so that no product leaves the 32-bit range.
RECURSIVE FracGreater(_, _, _, _)
FracGreater(a, b, c, d) ==
    IF a \div b # c \div d THEN a \div b > c \div d
    ELSE IF a % b = 0 THEN FALSE
    ELSE IF c % d = 0 THEN TRUE
    ELSE FracGreater(d, c % d, b, a % b)

\* abs(calculateZScore(value, st)) > sqrt(num / den): the z-score is
\* (value - mean) / stdDev = (count * value - sum) / sqrt(scaledVariance),
\* and 0 when stdDev is 0.
zScoreAbove(value, st, num, den) ==
    /\ st.scaledVariance > 0
    /\ FracGreater((st.count * value - st.sum)
                      * (st.count * value - st.sum),
                   st.scaledVariance, num, den)

\* Mutant: the score is computed however few samples the buffer holds.
calculateAnomalyScore_NoMinimum(d, data) ==
    LET d1 == AnomalyDetector_addToBuffer(d, data)
    IN  [detector |-> d1,
         score |-> IF \E channel \in Channels :
                         zScoreAbove(data[channel],
                                     calculateStats(d1.sensorHistory, channel,
                                                    d1.bufferSize),
                                     SCORE_Z2_NUM, SCORE_Z2_DEN)
                   THEN "above" ELSE "computed"]

\* AnomalyDetector::calculateAnomalyScore: the new detector, and the score
\* as "zero" (0.0 returned without statistics), "computed" (a score from
\* 0.5 to 0.997) or "above" (a score above 0.997).
calculateAnomalyScore(d, data) ==
    LET d1 == AnomalyDetector_addToBuffer(d, data)
    IN  IF d1.bufferSize < MIN_SAMPLES
        THEN [detector |-> d1, score |-> "zero"]
        ELSE [detector |-> d1,
              score |-> IF \E channel \in Channels :
                              zScoreAbove(data[channel],
                                          calculateStats(d1.sensorHistory,
                                                         channel, d1.bufferSize),
                                          SCORE_Z2_NUM, SCORE_Z2_DEN)
                        THEN "above" ELSE "computed"]

\* AnomalyDetector::isMoistureAnomaly on the statistics of the buffer.
isMoistureAnomaly(d, moisture) ==
    /\ d.bufferSize >= MIN_SAMPLES
    /\ zScoreAbove(moisture,
                   calculateStats(d.sensorHistory, "moisture", d.bufferSize),
                   ANOMALY_THRESHOLD * ANOMALY_THRESHOLD, 1)

\* AnomalyDetector::isSensorFault: the new detector and the verdict.  The
\* reading is stored only when the two band checks pass.
AnomalyDetector_isSensorFault(d, data) ==
    IF isSensorDisconnected(data) \/ isSensorOutOfRange(data)
    THEN [detector |-> d, score |-> "none", fault |-> TRUE]
    ELSE LET r == calculateAnomalyScore(d, data)
         IN  [detector |-> r.detector, score |-> r.score,
              fault |-> r.score = "above"]

\* What no call of the detector has returned yet.
NoVerdict ==
    [call |-> "none", data |-> DefaultReading, score |-> "none",
     fault |-> FALSE, moistureAnomaly |-> FALSE]

\* The components of the engine when setup() returns: mlEngine.begin() has
\* constructed the table and the detector and loaded the default tree.
LibraryAfterSetup ==
    /\ lookup = LookupTableAfterConstruction
    /\ override = [type \in PlantTypes |-> {}]
    /\ offered = <<>>
    /\ ingested = <<>>
    /\ detector = AnomalyDetectorAfterConstruction
    /\ verdict = NoVerdict
    /\ tree = irrigationTree

\* ------------------------------------------------- firmware with its engine
\* LocalMLEngine::detectAnomaly on the pair of the engine and its detector:
\* calculateAnomalyScore stores the reading, the verdict is score > 0.997.
LocalMLEngine_detectAnomaly(lib, data) ==
    LET r == calculateAnomalyScore(lib.detector, data)
    IN  [engine |-> addToBuffer(lib.engine), detector |-> r.detector,
         anomaly |-> r.score = "above"]

\* processSensor with the calls of the engine it makes: getImmediateAction
\* (which calls detectAnomaly on the reading), executeWateringAction on its
\* result, detectAnomaly on the same reading, sendDataToESP32.  `s.pass` is
\* the record processSensor works on, `s.lib` the engine and its detector.
systemProcessSensor(s, sensorIndex, moisture, env, currentTime) ==
    IF ~validateSensorReading(moisture, MIN_MOISTURE, MAX_MOISTURE)
    THEN [s EXCEPT !.pass =
            processSensor(s.pass, sensorIndex,
                          [moisture |-> moisture, shouldWater |-> FALSE,
                           waterDuration |-> 0, anomaly |-> FALSE],
                          env, currentTime)]
    ELSE
    LET sensorData == buildSensorData(moisture, env)
        inner == calculateAnomalyScore(s.lib.detector, sensorData)
        r == getImmediateAction(s.lib.engine, sensorIndex, sensorData,
                                inner.score = "above", currentTime)
        outer == LocalMLEngine_detectAnomaly(
                    [engine |-> r.engine, detector |-> inner.detector],
                    sensorData)
    IN  [pass |-> processSensor(s.pass, sensorIndex,
                                [moisture |-> moisture,
                                 shouldWater |-> r.inference.action.shouldWater,
                                 waterDuration |->
                                    r.inference.action.waterDuration,
                                 anomaly |-> outer.anomaly],
                                env, currentTime),
         lib |-> [engine |-> outer.engine, detector |-> outer.detector],
         calls |-> Append(s.calls, r.inference)]

\* processAllSensors with the engine.
systemProcessAllSensors(s, moisture, light, currentTime) ==
    LET env == [temperature |-> readTemperature, humidity |-> readHumidity,
                lightLevel |-> light]
    IN  systemProcessSensor(
            systemProcessSensor(s, 0, moisture[0], env, currentTime),
            1, moisture[1], env, currentTime)

\* ---------------------------------------------------------------- behaviour

IdlePump(t) ==
    [isActive |-> FALSE, startTime |-> 0, duration |-> 0,
     lastWateringTime |-> t, emergencyStop |-> FALSE,
     failsafeTriggered |-> FALSE, wateringCount |-> 0]

\* State when setup() returns.
Init ==
    /\ now = NUM_PUMPS * SETUP_PIN_DELAY + SETUP_FINAL_DELAY
    /\ pc = "update"
    /\ pumpStates = [i \in Pumps |-> IdlePump(i * SETUP_PIN_DELAY)]
    /\ relay = [i \in Pumps |-> "HIGH"]
    /\ systemFailsafeMode = FALSE
    /\ sensorFailed = [i \in Pumps |-> FALSE]
    /\ moisturePin \in [Pumps -> MoistureReadings]
    /\ lastSensorRead = 0
    /\ lastSystemHealthCheck = 0
    /\ healthCheckRun = {}
    /\ stats = [totalDecisions |-> 0, totalWateringActions |-> 0,
                totalAnomalies |-> 0]
    /\ events = {<<"SYSTEM_STARTUP", NoSensor>>}
    /\ cycleEnd = [i \in Pumps |-> {}]
    /\ engine = EngineAfterSetup
    /\ inference = NoInference
    /\ authorized = [i \in EngineSlots |-> <<>>]
    /\ lightPin \in LightReadings
    /\ lastESP32Send = 0
    /\ engineInput = [i \in Pumps |-> {}]
    /\ sent = <<>>
    /\ lastMessage = {}
    /\ LibraryAfterSetup

\* Installs a machine value and records the pumps that went Active -> Idle.
Install(m) ==
    /\ pumpStates' = m.pumpStates
    /\ relay' = m.relay
    /\ systemFailsafeMode' = m.systemFailsafeMode
    /\ events' = m.events
    /\ cycleEnd' = [i \in Pumps |->
                      IF pumpStates[i].isActive /\ ~m.pumpStates[i].isActive
                      THEN {now} ELSE cycleEnd[i]]

\* The time of the last message written so far.
Delivered == IF sent = <<>> THEN lastMessage ELSE {sent[Len(sent)].at}

\* A step that calls neither the engine nor sendDataToESP32.
NoSensorPass ==
    /\ engineInput' = [i \in Pumps |-> {}]
    /\ sent' = <<>>
    /\ lastMessage' = Delivered
    /\ UNCHANGED <<lightPin, lastESP32Send>>

\* loop(): resetWatchdog, updatePumpStates, periodic system health check.
\* performSystemHealthCheck only prints; the time it ran is stored in 16 bits.
LoopUpdate ==
    /\ pc = "update"
    /\ Install(updatePumpStates(CurrentMachine, now))
    /\ lastSystemHealthCheck' =
          IF now - lastSystemHealthCheck >= SYSTEM_HEALTH_CHECK_INTERVAL
          THEN now % UINT16_MOD ELSE lastSystemHealthCheck
    /\ healthCheckRun' =
          IF now - lastSystemHealthCheck >= SYSTEM_HEALTH_CHECK_INTERVAL
          THEN {now} ELSE healthCheckRun
    /\ pc' = "sensors"
    /\ UNCHANGED <<now, sensorFailed, moisturePin, lastSensorRead, stats>>
    /\ NoSensorPass
    /\ UNCHANGED engineVars

\* Mutant: sensors are processed in failsafe mode too.
sensorReadDue_NoModeCheck(sfm, currentTime, lastRead) ==
    currentTime - lastRead >= SENSOR_READ_INTERVAL

\* loop(): the condition guarding processAllSensors.
sensorReadDue(sfm, currentTime, lastRead) ==
    ~sfm /\ currentTime - lastRead >= SENSOR_READ_INTERVAL

\* loop(): read sensors and make decisions when due and not in failsafe mode.
LoopSensors ==
    /\ pc = "sensors"
    /\ \/ /\ sensorReadDue(systemFailsafeMode, now, lastSensorRead)
          /\ \E in0 \in {in \in SensorInputs : in.moisture = moisturePin[0]},
                in1 \in {in \in SensorInputs : in.moisture = moisturePin[1]} :
                \E s \in {processAllSensors(
                            [m |-> CurrentMachine, failed |-> sensorFailed,
                             stats |-> stats,
                             input |-> [i \in Pumps |-> {}],
                             link |-> [lastESP32Send |-> lastESP32Send,
                                       sent |-> <<>>]],
                            in0, in1, lightPin, now)} :
                    /\ Install(s.m)
                    /\ sensorFailed' = s.failed
                    /\ stats' = s.stats
                    /\ engineInput' = s.input
                    /\ lastESP32Send' = s.link.lastESP32Send
                    /\ sent' = s.link.sent
          /\ lastSensorRead' = now
          /\ lastMessage' = Delivered
          /\ UNCHANGED lightPin
       \/ /\ ~sensorReadDue(systemFailsafeMode, now, lastSensorRead)
          /\ events' = {}
          /\ UNCHANGED <<pumpStates, relay, systemFailsafeMode, sensorFailed,
                         stats, lastSensorRead, cycleEnd>>
          /\ NoSensorPass
    /\ pc' = "serial"
    /\ UNCHANGED <<now, moisturePin, lastSystemHealthCheck, healthCheckRun>>
    /\ UNCHANGED engineVars

\* Mutant: `reset` also clears the per-pump failsafe flags.
loopCommand_ResetClearsPumpFlags(m, command) ==
    IF command \in {"emergency", "stop"} THEN performEmergencyShutdown(m)
    ELSE IF command = "reset"
        THEN [logSystemEvent(m, "MANUAL_RESET", NoSensor)
                 EXCEPT !.systemFailsafeMode = FALSE,
                        !.pumpStates =
                            [i \in Pumps |-> [m.pumpStates[i] EXCEPT
                                                  !.failsafeTriggered = FALSE]]]
    ELSE m

\* loop(): the serial command block.
loopCommand(m, command) ==
    IF command \in {"emergency", "stop"} THEN performEmergencyShutdown(m)
    ELSE IF command = "reset"
        THEN [logSystemEvent(m, "MANUAL_RESET", NoSensor)
                 EXCEPT !.systemFailsafeMode = FALSE]
    ELSE m

LoopSerialOn(command) ==
    /\ pc = "serial"
    /\ Install(loopCommand(CurrentMachine, command))
    /\ pc' = "delay"
    /\ UNCHANGED <<now, sensorFailed, moisturePin, lastSensorRead,
                   lastSystemHealthCheck, healthCheckRun, stats>>
    /\ NoSensorPass
    /\ UNCHANGED engineVars

LoopSerial == \E command \in Commands \cup {NoCommand} : LoopSerialOn(command)

\* loop(): the trailing delay; the clock advances.
LoopDelay ==
    /\ pc = "delay"
    /\ \E d \in Delays :
          /\ now + d <= MaxTime
          /\ now' = now + d
    /\ pc' = "serialEvent"
    /\ events' = {}
    /\ UNCHANGED <<pumpStates, relay, systemFailsafeMode, sensorFailed,
                   moisturePin, lastSensorRead, lastSystemHealthCheck, healthCheckRun, stats,
                   cycleEnd>>
    /\ NoSensorPass
    /\ UNCHANGED engineVars

\* Mutant: the console's stop/emergency lines are ignored.
serialEventCommand_Ignored(m, command) == m

\* serialEvent(): run by the Arduino core after loop() returns.
serialEventCommand(m, command) ==
    IF command \in {"stop", "emergency"} THEN emergencyStopAllPumps(m) ELSE m

serialEventStats(st, command) ==
    IF command = "reset"
    THEN [totalDecisions |-> 0, totalWateringActions |-> 0, totalAnomalies |-> 0]
    ELSE st

SerialEventOn(command) ==
    /\ pc = "serialEvent"
    /\ Install(serialEventCommand(CurrentMachine, command))
    /\ stats' = serialEventStats(stats, command)
    /\ pc' = "update"
    /\ UNCHANGED <<now, sensorFailed, moisturePin, lastSensorRead,
                   lastSystemHealthCheck, healthCheckRun>>
    /\ NoSensorPass
    /\ UNCHANGED engineVars

SerialEvent == \E command \in Commands \cup {NoCommand} : SerialEventOn(command)

Next ==
    \/ LoopUpdate
    \/ LoopSensors
    \/ LoopSerial
    \/ LoopDelay
    \/ SerialEvent

Spec == Init /\ [][Next]_vars

\* loop() is called forever by the Arduino core: a step that is possible is
\* eventually taken.
LiveSpec == Spec /\ WF_vars(Next)

\* The reset line or a power cycle: the AVR starts over and setup() runs
\* again. Each run is followed up to the clock bound.
PowerCycle ==
    /\ pc = "delay"
    /\ \A d \in Delays : now + d > MaxTime
    /\ now' = NUM_PUMPS * SETUP_PIN_DELAY + SETUP_FINAL_DELAY
    /\ pc' = "update"
    /\ pumpStates' = [i \in Pumps |-> IdlePump(i * SETUP_PIN_DELAY)]
    /\ relay' = [i \in Pumps |-> "HIGH"]
    /\ systemFailsafeMode' = FALSE
    /\ sensorFailed' = [i \in Pumps |-> FALSE]
    /\ moisturePin' \in [Pumps -> MoistureReadings]
    /\ lastSensorRead' = 0
    /\ lastSystemHealthCheck' = 0
    /\ healthCheckRun' = {}
    /\ stats' = [totalDecisions |-> 0, totalWateringActions |-> 0,
                totalAnomalies |-> 0]
    /\ events' = {<<"SYSTEM_STARTUP", NoSensor>>}
    /\ cycleEnd' = [i \in Pumps |-> {}]
    /\ engine' = EngineAfterSetup
    /\ inference' = NoInference
    /\ authorized' = [i \in EngineSlots |-> <<>>]
    /\ lightPin' \in LightReadings
    /\ lastESP32Send' = 0
    /\ engineInput' = [i \in Pumps |-> {}]
    /\ sent' = <<>>
    /\ lastMessage' = {}
    /\ lookup' = LookupTableAfterConstruction
    /\ override' = [type \in PlantTypes |-> {}]
    /\ offered' = <<>>
    /\ ingested' = <<>>
    /\ detector' = AnomalyDetectorAfterConstruction
    /\ verdict' = NoVerdict
    /\ tree' = irrigationTree

RebootNext == Next \/ PowerCycle

\* The firmware over any number of runs of setup() and loop().
RebootSpec == Init /\ [][RebootNext]_vars /\ WF_vars(Next)

\* Waterings each pump has behind it when observation starts late.
PriorWaterings == {MAX_DAILY_WATERINGS - 1, MAX_DAILY_WATERINGS}

\* The firmware after every pump has completed c cycles (wateringCount++ in
\* executeWateringAction, nothing else writes the field), with the clock
\* origin moved to the end of the last cycle: only time differences are
\* compared by the pump functions.
LateInit ==
    /\ now = NUM_PUMPS * SETUP_PIN_DELAY + SETUP_FINAL_DELAY
    /\ pc = "update"
    /\ \E c \in PriorWaterings :
          pumpStates = [i \in Pumps |->
                          [IdlePump(i * SETUP_PIN_DELAY) EXCEPT !.wateringCount = c]]
    /\ relay = [i \in Pumps |-> "HIGH"]
    /\ systemFailsafeMode = FALSE
    /\ sensorFailed = [i \in Pumps |-> FALSE]
    /\ moisturePin \in [Pumps -> MoistureReadings]
    /\ lastSensorRead = 0
    /\ lastSystemHealthCheck = 0
    /\ healthCheckRun = {}
    /\ stats = [totalDecisions |-> 0, totalWateringActions |-> 0,
                totalAnomalies |-> 0]
    /\ events = {}
    /\ cycleEnd = [i \in Pumps |-> {}]
    /\ engine = EngineAfterSetup
    /\ inference = NoInference
    /\ authorized = [i \in EngineSlots |-> <<>>]
    /\ lightPin \in LightReadings
    /\ lastESP32Send = 0
    /\ engineInput = [i \in Pumps |-> {}]
    /\ sent = <<>>
    /\ lastMessage = {}
    /\ LibraryAfterSetup

LateSpec == LateInit /\ [][Next]_vars

\* A moisture probe is unplugged, shorted or plugged back in between two
\* sensor passes; the pin is only read by processSensor, so the change is
\* taken right before the pass.
MoisturePinChange ==
    /\ pc = "sensors"
    /\ \E i \in Pumps, value \in MoistureReadings \cup FaultReadings :
          /\ value # moisturePin[i]
          /\ moisturePin' = [moisturePin EXCEPT ![i] = value]
    /\ UNCHANGED <<now, pc, pumpStates, relay, systemFailsafeMode,
                   sensorFailed, lastSensorRead, lastSystemHealthCheck, healthCheckRun, stats,
                   events, cycleEnd, lightPin, lastESP32Send, engineInput,
                   sent, lastMessage>>
    /\ UNCHANGED engineVars

SensorNext == Next \/ MoisturePinChange

\* The firmware with moisture probes that can fail.
SensorSpec == Init /\ [][SensorNext]_vars

\* The firmware powered up with any of its analog sensors out of order: a
\* moisture probe or the light sensor that reads outside its range.
FaultyInit ==
    /\ now = NUM_PUMPS * SETUP_PIN_DELAY + SETUP_FINAL_DELAY
    /\ pc = "update"
    /\ pumpStates = [i \in Pumps |-> IdlePump(i * SETUP_PIN_DELAY)]
    /\ relay = [i \in Pumps |-> "HIGH"]
    /\ systemFailsafeMode = FALSE
    /\ sensorFailed = [i \in Pumps |-> FALSE]
    /\ moisturePin \in [Pumps -> MoistureReadings \cup FaultReadings]
    /\ lastSensorRead = 0
    /\ lastSystemHealthCheck = 0
    /\ healthCheckRun = {}
    /\ stats = [totalDecisions |-> 0, totalWateringActions |-> 0,
                totalAnomalies |-> 0]
    /\ events = {<<"SYSTEM_STARTUP", NoSensor>>}
    /\ cycleEnd = [i \in Pumps |-> {}]
    /\ engine = EngineAfterSetup
    /\ inference = NoInference
    /\ authorized = [i \in EngineSlots |-> <<>>]
    /\ lightPin \in LightReadings \cup LightFaultReadings
    /\ lastESP32Send = 0
    /\ engineInput = [i \in Pumps |-> {}]
    /\ sent = <<>>
    /\ lastMessage = {}
    /\ LibraryAfterSetup

FaultSpec == FaultyInit /\ [][Next]_vars

\* ------------------------------------------------ firmware with its engine
\* loop(): the sensor pass, every decision taken by mlEngine.
SystemSensors ==
    /\ pc = "sensors"
    /\ \/ /\ sensorReadDue(systemFailsafeMode, now, lastSensorRead)
          /\ \E s \in {systemProcessAllSensors(
                          [pass |-> [m |-> CurrentMachine,
                                     failed |-> sensorFailed,
                                     stats |-> stats,
                                     input |-> [i \in Pumps |-> {}],
                                     link |-> [lastESP32Send |-> lastESP32Send,
                                               sent |-> <<>>]],
                           lib |-> [engine |-> engine, detector |-> detector],
                           calls |-> <<>>],
                          moisturePin, lightPin, now)} :
                /\ Install(s.pass.m)
                /\ sensorFailed' = s.pass.failed
                /\ stats' = s.pass.stats
                /\ engineInput' = s.pass.input
                /\ lastESP32Send' = s.pass.link.lastESP32Send
                /\ sent' = s.pass.link.sent
                /\ engine' = s.lib.engine
                /\ detector' = s.lib.detector
                /\ inference' = IF s.calls = <<>> THEN inference
                                ELSE s.calls[Len(s.calls)]
                /\ authorized' =
                      [i \in EngineSlots |->
                          IF \E k \in DOMAIN s.calls :
                                /\ s.calls[k].sensorIndex = i
                                /\ s.calls[k].action.shouldWater
                                /\ ~s.calls[k].action.isFailsafe
                          THEN Append(authorized[i], now)
                          ELSE authorized[i]]
          /\ lastSensorRead' = now
          /\ lastMessage' = Delivered
          /\ UNCHANGED lightPin
       \/ /\ ~sensorReadDue(systemFailsafeMode, now, lastSensorRead)
          /\ events' = {}
          /\ UNCHANGED <<pumpStates, relay, systemFailsafeMode, sensorFailed,
                         stats, lastSensorRead, cycleEnd>>
          /\ NoSensorPass
          /\ UNCHANGED <<engine, inference, authorized, detector>>
    /\ pc' = "serial"
    /\ UNCHANGED <<now, moisturePin, lastSystemHealthCheck, healthCheckRun>>
    /\ UNCHANGED <<tableVars, offered, ingested, verdict, tree>>

SystemNext ==
    \/ LoopUpdate
    \/ SystemSensors
    \/ LoopSerial
    \/ LoopDelay
    \/ SerialEvent

\* The firmware with the decisions of its engine.
SystemSpec == Init /\ [][SystemNext]_vars

\* -------------------------------------------------- decision engine alone
EngineMaxTime == 25000000
\* Time between two calls of the engine: the interval itself, one ms more.
EngineDelays == {MIN_WATERING_INTERVAL, MIN_WATERING_INTERVAL + 1}
\* Arguments of getImmediateAction: the two channels and an invalid index.
EngineIndexes == Pumps \cup {ENGINE_SLOTS}
\* Readings: both disconnection bands, a value below and one above
\* 1.2 x threshold of both plants.
EngineReadings ==
    [moisture : {3, 400, 600, 1023}, temperature : {225}, humidity : {60},
     lightLevel : {500}]

\* mlEngine.getImmediateAction(sensorIndex, reading) at millis() = now.
GetImmediateAction ==
    /\ \E sensorIndex \in EngineIndexes, reading \in EngineReadings,
          scoreAbove \in BOOLEAN :
          LET r == getImmediateAction(engine, sensorIndex, reading,
                                      scoreAbove, now)
          IN  /\ engine' = r.engine
              /\ inference' = r.inference
              /\ authorized' =
                    IF r.inference.action.shouldWater
                       /\ ~r.inference.action.isFailsafe
                    THEN [authorized EXCEPT ![sensorIndex] = Append(@, now)]
                    ELSE authorized
    /\ UNCHANGED now
    /\ UNCHANGED <<tableVars, detectorVars, tree>>
    /\ UNCHANGED pumpVars

\* mlEngine.setFailsafeMode(enabled).
SetFailsafeMode ==
    /\ \E enabled \in BOOLEAN :
          /\ enabled # engine.failsafeEnabled
          /\ engine' = [engine EXCEPT !.failsafeEnabled = enabled]
    /\ UNCHANGED <<now, inference, authorized>>
    /\ UNCHANGED <<tableVars, detectorVars, tree>>
    /\ UNCHANGED pumpVars

\* Time passes between two calls.
EngineDelay ==
    /\ \E d \in EngineDelays :
          /\ now + d <= EngineMaxTime
          /\ now' = now + d
    /\ UNCHANGED engineVars
    /\ UNCHANGED pumpVars

EngineNext ==
    \/ GetImmediateAction
    \/ SetFailsafeMode
    \/ EngineDelay

\* The decision engine driven through its interface.
EngineSpec == Init /\ [][EngineNext]_vars

\* ---------------------------------------------- normal pipeline alone
\* In-range readings: the ends of every range and a value inside; hours
\* since the last watering up to the 48 the time score saturates at.
PipelineReadings ==
    [moisture : {0, 300, 700, 1023}, temperature : {100, 225, 400},
     humidity : {0, 60, 100}, lightLevel : {0, 500, 1023},
     lastWatered : {0, 24, TIME_SCORE_HOURS},
     plantType : PlantTypes, growthStage : GrowthStages]

\* The engine about to run its normal pipeline on a reading.
PipelineInit ==
    /\ now = NUM_PUMPS * SETUP_PIN_DELAY + SETUP_FINAL_DELAY
    /\ pc = "update"
    /\ pumpStates = [i \in Pumps |-> IdlePump(i * SETUP_PIN_DELAY)]
    /\ relay = [i \in Pumps |-> "HIGH"]
    /\ systemFailsafeMode = FALSE
    /\ sensorFailed = [i \in Pumps |-> FALSE]
    /\ moisturePin \in [Pumps -> MoistureReadings]
    /\ lastSensorRead = 0
    /\ lastSystemHealthCheck = 0
    /\ healthCheckRun = {}
    /\ stats = [totalDecisions |-> 0, totalWateringActions |-> 0,
                totalAnomalies |-> 0]
    /\ events = {<<"SYSTEM_STARTUP", NoSensor>>}
    /\ cycleEnd = [i \in Pumps |-> {}]
    /\ engine = EngineAfterSetup
    /\ inference \in
          {[NoInference EXCEPT
               !.reading = [moisture |-> data.moisture,
                            temperature |-> data.temperature,
                            humidity |-> data.humidity,
                            lightLevel |-> data.lightLevel],
               !.lastWatered = data.lastWatered,
               !.plantType = data.plantType,
               !.growthStage = data.growthStage] : data \in PipelineReadings}
    /\ authorized = [i \in EngineSlots |-> <<>>]
    /\ lightPin \in LightReadings
    /\ lastESP32Send = 0
    /\ engineInput = [i \in Pumps |-> {}]
    /\ sent = <<>>
    /\ lastMessage = {}
    /\ LibraryAfterSetup

\* mapToWaterAmount(predictWaterNeed(data)), as getImmediateAction calls
\* them when no anomaly is found.
PredictWaterNeed ==
    /\ ~inference.pipeline
    /\ \E data \in {[moisture |-> inference.reading.moisture,
                      temperature |-> inference.reading.temperature,
                      humidity |-> inference.reading.humidity,
                      lightLevel |-> inference.reading.lightLevel,
                      lastWatered |-> inference.lastWatered,
                      plantType |-> inference.plantType,
                      growthStage |-> inference.growthStage]} :
          inference' =
              [inference EXCEPT
                  !.pipeline = TRUE,
                  !.threshold = getMoistureThreshold(data.plantType,
                                                     data.growthStage),
                  !.rawPrediction = predict(calculateFeatureScore(data)),
                  !.waterNeed = predictWaterNeed(data),
                  !.amount = mapToWaterAmount(predictWaterNeed(data))]
    /\ UNCHANGED <<now, engine, authorized, tableVars, detectorVars, tree>>
    /\ UNCHANGED pumpVars

PipelineNext == PredictWaterNeed

\* The prediction of the normal pipeline on its own.
PipelineSpec == PipelineInit /\ [][PipelineNext]_vars

\* ------------------------------------------------- threshold table alone
\* Thresholds a caller sets: below, between and above the table's values.
CustomThresholds == {300, 500, 650}
\* Plants whose thresholds the caller changes.
TablePlants == {"TOMATO", "LETTUCE", "CACTUS"}

\* mlEngine.updatePlantThresholds(type, moistureThreshold, ...).
UpdatePlantThresholds ==
    /\ \E type \in TablePlants \cup {INVALID_PLANT},
          moistureThreshold \in CustomThresholds :
          /\ lookup' = updateThresholds(lookup, type, moistureThreshold)
          /\ override' = IF type \in PlantTypes
                         THEN [override EXCEPT ![type] = {moistureThreshold}]
                         ELSE override
    /\ UNCHANGED <<now, decisionVars, detectorVars, tree>>
    /\ UNCHANGED pumpVars

\* LookupTable::resetToDefaults(type).
ResetToDefaults ==
    /\ \E type \in TablePlants \cup {INVALID_PLANT} :
          /\ lookup' = resetToDefaults(lookup, type)
          /\ override' = IF type \in PlantTypes
                         THEN [override EXCEPT ![type] = {}]
                         ELSE override
    /\ UNCHANGED <<now, decisionVars, detectorVars, tree>>
    /\ UNCHANGED pumpVars

TableNext ==
    \/ UpdatePlantThresholds
    \/ ResetToDefaults

\* The threshold table driven through its interface.
TableSpec == Init /\ [][TableNext]_vars

\* ------------------------------------------------- anomaly detector alone
\* Readings per stream: more than the buffer holds.
StreamLength == 27

\* Moisture streams: nine steady readings and an outlier, then steady; a
\* ramp of distinct values; a constant; an outlier after twenty readings;
\* readings in the disconnection bands.
SampleStreams ==
    {[k \in 1 .. StreamLength |->
        IF k <= 10
        THEN <<420, 430, 415, 440, 425, 418, 432, 428, 422, 900>>[k]
        ELSE 425],
     [k \in 1 .. StreamLength |-> 400 + k],
     [k \in 1 .. StreamLength |-> 500],
     [k \in 1 .. StreamLength |->
        IF k = 21 THEN 1000 ELSE IF k % 2 = 1 THEN 420 ELSE 430],
     [k \in 1 .. StreamLength |->
        IF k = 3 THEN 3 ELSE IF k = 4 THEN 1023
        ELSE IF k % 2 = 1 THEN 410 ELSE 450]}

\* The readings that can follow the ones offered so far.
NextSamples ==
    {stream[Len(offered) + 1] :
        stream \in {st \in SampleStreams :
                        /\ Len(offered) < StreamLength
                        /\ SubSeq(st, 1, Len(offered)) = offered}}

\* A reading with the given moisture and nominal other channels.
Sample(moisture) == [DefaultReading EXCEPT !.moisture = moisture]

\* sensorMonitor->calculateAnomalyScore(data), as detectAnomaly calls it,
\* then isMoistureAnomaly(data.moisture).
CalculateAnomalyScore ==
    /\ \E moisture \in NextSamples :
          \E r \in {calculateAnomalyScore(detector, Sample(moisture))} :
              /\ detector' = r.detector
              /\ verdict' = [call |-> "calculateAnomalyScore",
                             data |-> Sample(moisture), score |-> r.score,
                             fault |-> FALSE,
                             moistureAnomaly |->
                                isMoistureAnomaly(r.detector, moisture)]
              /\ offered' = Append(offered, moisture)
              /\ ingested' = Append(ingested, moisture)
    /\ UNCHANGED <<now, decisionVars, tableVars, tree>>
    /\ UNCHANGED pumpVars

\* isSensorFault(data), then isMoistureAnomaly(data.moisture).
IsSensorFault ==
    /\ \E moisture \in NextSamples :
          \E r \in {AnomalyDetector_isSensorFault(detector, Sample(moisture))} :
              /\ detector' = r.detector
              /\ verdict' = [call |-> "isSensorFault",
                             data |-> Sample(moisture), score |-> r.score,
                             fault |-> r.fault,
                             moistureAnomaly |->
                                isMoistureAnomaly(r.detector, moisture)]
              /\ offered' = Append(offered, moisture)
              /\ ingested' = IF r.score = "none" THEN ingested
                             ELSE Append(ingested, moisture)
    /\ UNCHANGED <<now, decisionVars, tableVars, tree>>
    /\ UNCHANGED pumpVars

DetectorNext ==
    \/ CalculateAnomalyScore
    \/ IsSensorFault

\* The anomaly detector driven through its interface.
DetectorSpec == Init /\ [][DetectorNext]_vars

\* ---------------------------------------------------- decision tree alone
\* Arguments of addNode: index 0, two nodes, the first index out of range;
\* children among no child, the two nodes and a leaf of the default tree.
TreeIndexes == {0, 1, 2, MAX_TREE_NODES}
TreeChildren == {0, 1, 2, 4}
TreeRoots == {0, 1, 2}
\* Feature scores on both sides of the thresholds, in tenths.
TreeScores == {4, 8}

\* decisionTree->addNode(index, featureIndex, threshold, left, right, value).
AddNode ==
    /\ \E index \in TreeIndexes, leftChild \in TreeChildren,
          rightChild \in TreeChildren :
          tree' = addNode(tree, index, "MOISTURE", 6, leftChild, rightChild, 0)
    /\ UNCHANGED <<now, decisionVars, tableVars, detectorVars>>
    /\ UNCHANGED pumpVars

\* decisionTree->setRootIndex(index).
SetRootIndex ==
    /\ \E index \in TreeRoots : tree' = setRootIndex(tree, index)
    /\ UNCHANGED <<now, decisionVars, tableVars, detectorVars>>
    /\ UNCHANGED pumpVars

TreeNext ==
    \/ AddNode
    \/ SetRootIndex

\* The decision tree driven through its loading interface.
TreeSpec == Init /\ [][TreeNext]_vars

TypeOK ==
    /\ now \in 0 .. MaxTime
    /\ pc \in {"update", "sensors", "serial", "delay", "serialEvent"}
    /\ \A i \in Pumps :
          /\ pumpStates[i].isActive \in BOOLEAN
          /\ pumpStates[i].startTime \in 0 .. now
          /\ pumpStates[i].lastWateringTime \in 0 .. now
          /\ pumpStates[i].duration \in 0 .. MAX_PUMP_DURATION
          /\ pumpStates[i].wateringCount \in 0 .. (WATERING_COUNT_MOD - 1)
          /\ relay[i] \in {"HIGH", "LOW"}
    /\ systemFailsafeMode \in BOOLEAN

EngineTypeOK ==
    /\ now \in 0 .. EngineMaxTime
    /\ engine.bufferSize \in 0 .. ANOMALY_BUFFER_SIZE
    /\ engine.failsafeEnabled \in BOOLEAN
    /\ \A i \in EngineSlots : engine.lastWateringTime[i] \in 0 .. now
    /\ inference.action.waterDuration \in 0 .. MAX_PUMP_DURATION
    /\ inference.amount \in NO_WATER .. HIGH_WATER
\* ------------------------------------------------------------------- claims
Event(name, i) == <<name, i>> \in events
EventNext(name, i) == <<name, i>> \in events'
Elapsed(i) == now - pumpStates[i].startTime
FailsafeCount == Cardinality({i \in Pumps : pumpStates[i].failsafeTriggered})

\* C1: right after updatePumpStates has run in a tick, no pump is Active
\* with now - startTime above FAILSAFE_PUMP_DURATION.
C1_BoundedDuration ==
    pc = "sensors" =>
        \A i \in Pumps :
            pumpStates[i].isActive => Elapsed(i) <= FAILSAFE_PUMP_DURATION

\* A tick found a pump beyond the ceiling and switched it off.
C1_Witness ==
    /\ pc = "sensors"
    /\ \E i \in Pumps :
          /\ Event("PUMP_FAILSAFE", i)
          /\ Elapsed(i) > FAILSAFE_PUMP_DURATION
          /\ ~pumpStates[i].isActive
          /\ relay[i] = "HIGH"

\* A start request for pump i with duration d would change nothing.
StartFails(i, d) ==
    LET m == executeWateringAction(CurrentMachine, sensorFailed, i, d, now)
    IN  /\ m.pumpStates = pumpStates
        /\ m.relay = relay
        /\ m.systemFailsafeMode = systemFailsafeMode

\* C2: while systemFailsafeMode is true every start request fails and all
\* pumps stay Idle, and the flag is cleared only by the step of loop() that
\* handles the operator's command to leave failsafe mode (MANUAL_RESET).
C2_SafeModeSticky ==
    /\ [](systemFailsafeMode =>
            \A i \in Pumps :
                /\ ~pumpStates[i].isActive
                /\ \A d \in RequestDurations : StartFails(i, d))
    /\ [][systemFailsafeMode =>
            /\ (~systemFailsafeMode' =>
                    pc = "serial" /\ EventNext("MANUAL_RESET", NoSensor))
            /\ \A i \in Pumps : ~pumpStates'[i].isActive]_vars

\* Safe mode has lasted across a tick whose sensor pass was due, the
\* cooldown of a pump is over, and the pump is Idle.
C2_Witness ==
    /\ systemFailsafeMode
    /\ pc = "serial"
    /\ now - lastSensorRead >= SENSOR_READ_INTERVAL
    /\ \E i \in Pumps :
          /\ now - pumpStates[i].lastWateringTime >= PUMP_COOLDOWN_TIME
          /\ ~pumpStates[i].isActive

ZeroStats ==
    [totalDecisions |-> 0, totalWateringActions |-> 0, totalAnomalies |-> 0]

\* C3: the command `reset` does not clear global safe mode: when
\* systemFailsafeMode is true before `reset` is handled (in loop() or in
\* serialEvent()), it is true afterwards.
C3_ResetKeepsSafeMode ==
    [][((LoopSerialOn("reset") \/ SerialEventOn("reset")) /\ systemFailsafeMode)
            => systemFailsafeMode']_vars

\* C4: a pump that has completed a cycle is Active again only if it was
\* started at least PUMP_COOLDOWN_TIME after that cycle ended.
C4_CooldownAfterEveryEnd ==
    \A i \in Pumps :
        pumpStates[i].isActive =>
            \A ended \in cycleEnd[i] :
                pumpStates[i].startTime - ended >= PUMP_COOLDOWN_TIME

\* C5: a start request for an Active pump changes no pump, relay or mode,
\* and the sensor pass of a tick leaves every Active pump as it was.
C5_StartOnActiveNoOp ==
    /\ [](\A i \in Pumps :
            pumpStates[i].isActive =>
                \A d \in RequestDurations : StartFails(i, d))
    /\ [][pc = "sensors" =>
            \A i \in Pumps :
                pumpStates[i].isActive =>
                    pumpStates'[i] = pumpStates[i] /\ relay'[i] = relay[i]]_vars

\* A start request reached a pump that had been running for some time.
C5_Witness ==
    \E i \in Pumps :
        /\ Event("WATERING_BLOCKED_ACTIVE", i)
        /\ pumpStates[i].isActive
        /\ Elapsed(i) > 0
        /\ relay[i] = "LOW"
\* C6 (as stated): once failsafeTriggered is set for a pump, no step clears it.
C6_FailsafeFlagNeverCleared ==
    [][\A i \in Pumps :
          pumpStates[i].failsafeTriggered => pumpStates'[i].failsafeTriggered]_vars

\* C6 (amended): failsafeTriggered of a pump is cleared only by a start
\* request that starts that pump; ticks, rejected start requests and
\* operator commands leave it set.
C6_FailsafeFlagClearedOnlyByStart ==
    [][\A i \in Pumps :
          (pumpStates[i].failsafeTriggered /\ ~pumpStates'[i].failsafeTriggered)
              => (pc = "sensors" /\ EventNext("PUMP_STARTED", i)
                  /\ pumpStates'[i].isActive)]_vars

\* A tripped pump kept its flag through a later tick.
C6_Witness ==
    \E i \in Pumps :
        /\ pumpStates[i].failsafeTriggered
        /\ \E ended \in cycleEnd[i] : now > ended
        /\ pc = "serial"

\* C7: a tick that finds a pump Active, not flagged for emergency stop, with
\* elapsed time above duration + grace period, sets its failsafeTriggered.
C7_StuckPumpTrips ==
    [][pc = "update" =>
          \A i \in Pumps :
              (/\ pumpStates[i].isActive
               /\ ~pumpStates[i].emergencyStop
               /\ Elapsed(i) > pumpStates[i].duration + STUCK_GRACE_PERIOD)
                  => pumpStates'[i].failsafeTriggered]_vars

\* C8: a pump that is Active, with room left before the clock bound for the
\* ticks that end its cycle, is eventually Idle with its relay off.
C8_PumpEventuallyIdle ==
    \A i \in Pumps :
        (pumpStates[i].isActive /\ pumpStates[i].startTime + LiveMargin <= MaxTime)
            ~> (~pumpStates[i].isActive /\ relay[i] = "HIGH")

\* A cycle that began with that room has ended.
C8_Witness ==
    \E i \in Pumps :
        /\ cycleEnd[i] # {}
        /\ pumpStates[i].startTime > 0
        /\ pumpStates[i].startTime + LiveMargin <= MaxTime
        /\ ~pumpStates[i].isActive
        /\ relay[i] = "HIGH"

\* C9: in safe mode every pump is off once updatePumpStates has run, no
\* sensor pass is made (no decision, no start, no blocked request) and no
\* pump becomes Active.
C9_SafeModeHaltsActuation ==
    /\ []((systemFailsafeMode /\ pc = "sensors") =>
            \A i \in Pumps : ~pumpStates[i].isActive /\ relay[i] = "HIGH")
    /\ [][systemFailsafeMode =>
            /\ lastSensorRead' = lastSensorRead
            /\ stats' \in {stats, ZeroStats}
            /\ \A i \in Pumps :
                  /\ ~EventNext("PUMP_STARTED", i)
                  /\ ~EventNext("WATERING_BLOCKED_FAILSAFE", i)
                  /\ (pumpStates'[i].isActive => pumpStates[i].isActive)]_vars

\* Safe mode was entered while a pump was running (its cycle ended neither
\* by a stop in updatePumpStates nor by a trip), and a later tick skipped a
\* sensor pass that was due.
C9_Witness ==
    /\ systemFailsafeMode
    /\ pc = "serial"
    /\ now - lastSensorRead >= SENSOR_READ_INTERVAL
    /\ \E i \in Pumps :
          /\ \E ended \in cycleEnd[i] :
                ended < now /\ ended > pumpStates[i].lastWateringTime
          /\ ~pumpStates[i].failsafeTriggered
          /\ ~pumpStates[i].isActive

\* C10: when updatePumpStates has tripped a pump and two or more pumps have
\* failsafeTriggered set, systemFailsafeMode is true when it returns.
C10_MultiPumpEscalation ==
    (/\ pc = "sensors"
     /\ \E i \in Pumps : Event("PUMP_FAILSAFE", i)
     /\ FailsafeCount >= 2)
        => systemFailsafeMode

\* Both pumps are tripped after a tick and safe mode was entered by it.
C10_Witness ==
    /\ pc = "sensors"
    /\ \E i \in Pumps : Event("PUMP_FAILSAFE", i)
    /\ FailsafeCount >= 2
    /\ Event("SYSTEM_FAILSAFE_ACTIVATED", NoSensor)
    /\ systemFailsafeMode
\* C13: wateringCount of every pump is at most MAX_DAILY_WATERINGS.
C13_CountAtMostCap ==
    \A i \in Pumps : pumpStates[i].wateringCount <= MAX_DAILY_WATERINGS

\* Length of the period the watering cap is counted over ("per day").
MS_PER_DAY == 86400000

\* A tick run at time t followed by a start request starts pump i at t.
StartedAt(i, d, t) ==
    LET m == executeWateringAction(updatePumpStates(CurrentMachine, t),
                                   sensorFailed, i, d, t)
    IN  m.pumpStates[i].isActive /\ m.pumpStates[i].startTime = t

\* C14: a pump whose wateringCount has reached MAX_DAILY_WATERINGS can be
\* started again in the next period: with all pumps Idle and the system not
\* in failsafe mode, a start request made one day later starts it.
C14_CappedPumpStartsNextDay ==
    \A i \in Pumps :
        (/\ pumpStates[i].wateringCount >= MAX_DAILY_WATERINGS
         /\ ~systemFailsafeMode
         /\ \A j \in Pumps : ~pumpStates[j].isActive)
            => \A d \in RequestDurations : StartedAt(i, d, now + MS_PER_DAY)

\* The step handles `stop` or `emergency`.
StopCommandInLoop == LoopSerialOn("stop") \/ LoopSerialOn("emergency")
StopCommandInSerialEvent == SerialEventOn("stop") \/ SerialEventOn("emergency")

AllPumpsOff(ps, rl) ==
    \A i \in Pumps : ~ps[i].isActive /\ rl[i] = "HIGH"

\* C15: the step of loop() that handles `stop` or `emergency` leaves every
\* pump Idle with its relay off; the step of serialEvent() that handles them
\* flags every Active pump, the next step is updatePumpStates, and it leaves
\* every pump Idle with its relay off before the sensor pass; neither step
\* starts a pump.
C15_StopCommandIdlesAllPumps ==
    /\ [][StopCommandInLoop => AllPumpsOff(pumpStates', relay')]_vars
    /\ [][StopCommandInSerialEvent =>
            /\ pc' = "update"
            /\ \A i \in Pumps :
                  pumpStates'[i].isActive => pumpStates'[i].emergencyStop]_vars
    /\ [][(pc = "update" /\ \A i \in Pumps :
                pumpStates[i].isActive => pumpStates[i].emergencyStop)
            => (pc' = "sensors" /\ AllPumpsOff(pumpStates', relay'))]_vars
    /\ [][(StopCommandInLoop \/ StopCommandInSerialEvent) =>
            \A i \in Pumps :
                /\ ~EventNext("PUMP_STARTED", i)
                /\ (pumpStates'[i].isActive => pumpStates[i].isActive)
                /\ (relay'[i] = "LOW" => relay[i] = "LOW")]_vars

\* serialEvent() flagged a running pump and the following tick switched it
\* off before the sensor pass.
C15_Witness ==
    /\ pc = "sensors"
    /\ \E i \in Pumps :
          /\ Event("PUMP_EMERGENCY_STOP", i)
          /\ pumpStates[i].emergencyStop
          /\ ~pumpStates[i].isActive
          /\ relay[i] = "HIGH"
          /\ ~systemFailsafeMode

\* The step evaluates decisions or starts a pump.
DecisionStep ==
    \/ lastSensorRead' # lastSensorRead
    \/ \E i \in Pumps :
          \/ EventNext("PUMP_STARTED", i)
          \/ EventNext("WATERING_BLOCKED_ACTIVE", i)
          \/ EventNext("WATERING_BLOCKED_FAILSAFE", i)
          \/ (pumpStates'[i].isActive /\ ~pumpStates[i].isActive)

\* C20: decisions are evaluated and pumps are started only by the step that
\* directly follows updatePumpStates in the same tick (the clock has not
\* moved in between), and at that point every Active pump has passed the
\* checks of updatePumpStates for the current time: no pending emergency
\* stop, elapsed time below its duration and below the failsafe ceiling.
C20_UpdateBeforeDecisions ==
    /\ [][DecisionStep => pc = "sensors"]_vars
    /\ [][pc' = "sensors" => (pc = "update" /\ now' = now)]_vars
    /\ [](pc = "sensors" =>
            \A i \in Pumps :
                pumpStates[i].isActive =>
                    /\ ~pumpStates[i].emergencyStop
                    /\ Elapsed(i) < pumpStates[i].duration
                    /\ Elapsed(i) <= FAILSAFE_PUMP_DURATION)

\* A running pump was checked by a tick, was left running, and the sensor
\* pass of the same tick started the other pump.
C20_Witness ==
    /\ pc = "serial"
    /\ \E i, j \in Pumps :
          /\ Event("PUMP_STARTED", j)
          /\ pumpStates[j].startTime = now
          /\ pumpStates[i].isActive
          /\ Elapsed(i) > 0
FailedSensorCount == Cardinality({i \in Pumps : sensorFailed[i]})

C17_FaultSkipsInference ==
    (/\ inference.sensorIndex \in EngineSlots
     /\ isSensorFault(inference.reading, inference.anomaly))
        => ~inference.pipeline

\* The decision the failsafe override returns.
FailsafeDecision ==
    [shouldWater |-> TRUE, waterDuration |-> 1000, waterAmount |-> 100,
     isFailsafe |-> TRUE]

\* C18: a call that finds the reading anomalous returns the medium-tier
\* failsafe decision when failsafe mode is enabled and moisture exceeds
\* 1.2 x threshold, and no watering otherwise; it evaluates no tree, maps no
\* tier, checks no interval and records no watering.
C18_AnomalyFailsafeOverride ==
    inference.anomaly =>
        /\ inference.action =
              IF /\ inference.failsafeEnabled
                 /\ inference.reading.moisture * 100 > inference.threshold * 12
              THEN FailsafeDecision ELSE DefaultAction
        /\ ~inference.pipeline
        /\ inference.rawPrediction = 0
        /\ inference.amount = NO_WATER
        /\ ~inference.timeChecked
        /\ ~inference.recorded

\* A failsafe watering was returned for a sensor index inside its
\* re-watering interval, which the call left as it was.
C18_Witness ==
    \E i \in EngineSlots :
        /\ inference.sensorIndex = i
        /\ inference.anomaly
        /\ inference.action = FailsafeDecision
        /\ engine.lastWateringTime[i] > 0
        /\ now - engine.lastWateringTime[i] < MIN_WATERING_INTERVAL
        /\ Len(authorized[i]) = 1

\* Threshold the generic tree output is scaled against.
REFERENCE_THRESHOLD == 400

\* C19: the adjusted prediction of a normal inference is
\* rawPrediction x threshold / REFERENCE_THRESHOLD, and for a plant whose
\* threshold is the reference the tier is the tier of the raw prediction.
C19_AdjustedPredictionScaled ==
    inference.pipeline =>
        /\ inference.waterNeed * REFERENCE_THRESHOLD
                = inference.rawPrediction * inference.threshold
        /\ (inference.threshold = REFERENCE_THRESHOLD * 10 =>
                inference.amount = mapToWaterAmount(inference.rawPrediction * 10))
\* C21: the planned duration of every pump is at most MAX_PUMP_DURATION,
\* which is below FAILSAFE_PUMP_DURATION, and a start request that passes
\* the mode, activity, cooldown, count and sensor checks starts the pump
\* with duration min(requested, MAX_PUMP_DURATION) whatever it requested.
C21_DurationCappedNotRejected ==
    /\ MAX_PUMP_DURATION < FAILSAFE_PUMP_DURATION
    /\ \A i \in Pumps :
          /\ pumpStates[i].duration <= MAX_PUMP_DURATION
          /\ (/\ ~systemFailsafeMode
              /\ ~pumpStates[i].isActive
              /\ validatePumpOperation(CurrentMachine, sensorFailed, i, now))
                => \A d \in RequestDurations :
                      LET m == executeWateringAction(CurrentMachine, sensorFailed,
                                                     i, d, now)
                      IN  /\ m.pumpStates[i].isActive
                          /\ m.pumpStates[i].startTime = now
                          /\ m.pumpStates[i].duration = Min(d, MAX_PUMP_DURATION)
                          /\ m.relay[i] = "LOW"

\* A pump was started on a request above the limit and runs with the cap.
C21_Witness ==
    \E i \in Pumps :
        /\ Event("PUMP_STARTED", i)
        /\ pumpStates[i].isActive
        /\ pumpStates[i].startTime = now
        /\ pumpStates[i].duration = MAX_PUMP_DURATION
        /\ MAX_PUMP_DURATION \notin RequestDurations

\* C22: a tick that finds a pump Active with elapsed time above
\* FAILSAFE_PUMP_DURATION trips it (relay off, Idle, failsafeTriggered,
\* PUMP_FAILSAFE logged, end of cycle not recorded as a watering), whether
\* or not an emergency stop is pending and although its duration is over.
C22_CeilingOverridesAll ==
    [][pc = "update" =>
          \A i \in Pumps :
              (pumpStates[i].isActive /\ Elapsed(i) > FAILSAFE_PUMP_DURATION)
                  => /\ ~pumpStates'[i].isActive
                     /\ relay'[i] = "HIGH"
                     /\ pumpStates'[i].failsafeTriggered
                     /\ pumpStates'[i].lastWateringTime
                            = pumpStates[i].lastWateringTime
                     /\ EventNext("PUMP_FAILSAFE", i)
                     /\ ~EventNext("PUMP_EMERGENCY_STOP", i)
                     /\ ~EventNext("PUMP_NORMAL_STOP", i)]_vars

\* A pump whose planned duration was long over was tripped by a tick, and
\* the end of its cycle was not recorded as a watering.
C22_Witness ==
    /\ pc = "sensors"
    /\ \E i \in Pumps :
          /\ Event("PUMP_FAILSAFE", i)
          /\ pumpStates[i].failsafeTriggered
          /\ ~pumpStates[i].isActive
          /\ Elapsed(i) > FAILSAFE_PUMP_DURATION
          /\ Elapsed(i) >= pumpStates[i].duration
          /\ pumpStates[i].lastWateringTime < pumpStates[i].startTime

AfterSensorPass == pc = "serial" /\ lastSensorRead = now

\* The data the engine gets for a moisture value when environmental values
\* that are out of range are replaced by 22.5 C, 60 % and 500.
WithFallbacks(moisture, env) ==
    [moisture |-> moisture,
     temperature |-> IF env.temperature \in MIN_TEMP .. MAX_TEMP
                     THEN env.temperature ELSE 225,
     humidity |-> IF env.humidity \in MIN_HUMIDITY .. MAX_HUMIDITY
                  THEN env.humidity ELSE 600,
     lightLevel |-> IF env.lightLevel \in MIN_LIGHT .. MAX_LIGHT
                    THEN env.lightLevel ELSE 500]

\* C24: after a sensor pass, a sensor whose moisture reading is invalid got
\* no decision and no pump start; a sensor whose moisture reading is valid
\* got a decision on its reading with fallback values in place of invalid
\* temperature, humidity or light, whatever the environmental values are.
C24_SensorFaultRecovery ==
    /\ AfterSensorPass =>
          \A i \in Pumps :
              IF moisturePin[i] \in MIN_MOISTURE .. MAX_MOISTURE
              THEN engineInput[i] =
                      {WithFallbacks(moisturePin[i],
                                     [temperature |-> readTemperature,
                                      humidity |-> readHumidity,
                                      lightLevel |-> lightPin])}
              ELSE /\ engineInput[i] = {}
                   /\ ~Event("PUMP_STARTED", i)
                   /\ ~(pumpStates[i].isActive /\ pumpStates[i].startTime = now)
    /\ pc = "sensors" =>
          \A i \in Pumps, in \in SensorInputs, env \in EnvironmentValues :
              LET s0 == [m |-> CurrentMachine, failed |-> sensorFailed,
                         stats |-> stats, input |-> [j \in Pumps |-> {}],
                         link |-> [lastESP32Send |-> lastESP32Send,
                                   sent |-> <<>>]]
                  s == processSensor(s0, i, in, env, now)
              IN  IF in.moisture \in MIN_MOISTURE .. MAX_MOISTURE
                  THEN /\ s.input[i] = {WithFallbacks(in.moisture, env)}
                       /\ s.stats.totalDecisions = Bump(stats.totalDecisions)
                  ELSE /\ s.input[i] = {}
                       /\ s.m = s0.m
                       /\ s.stats = stats

\* In one pass a sensor with an invalid moisture reading was skipped and the
\* other got a decision with the fallback light level.
C24_Witness ==
    /\ AfterSensorPass
    /\ lightPin \notin MIN_LIGHT .. MAX_LIGHT
    /\ \E i, j \in Pumps :
          /\ moisturePin[i] \notin MIN_MOISTURE .. MAX_MOISTURE
          /\ engineInput[i] = {}
          /\ engineInput[j] # {}
          /\ \A data \in engineInput[j] :
                data.lightLevel = 500 /\ data.moisture = moisturePin[j]

\* C25: every message written to the ESP32 link is at least
\* ESP32_SEND_INTERVAL after the message written before it.
C25_TelemetryRateLimit ==
    \A k \in 1 .. Len(sent) :
        /\ \A t \in lastMessage : sent[k].at - t >= ESP32_SEND_INTERVAL
        /\ \A j \in 1 .. (k - 1) : sent[k].at - sent[j].at >= ESP32_SEND_INTERVAL

\* A message was written after an earlier one, and in the same pass the
\* message of the other sensor was withheld.
C25_Witness ==
    /\ Len(sent) = 1
    /\ lastMessage # {}
    /\ \A t \in lastMessage : sent[1].at - t >= ESP32_SEND_INTERVAL
    /\ \A i \in Pumps : engineInput[i] # {}
\* A call of the detector that stored its reading has just returned.
Scored == verdict.call # "none" /\ verdict.score # "none"

\* C26: a call that leaves fewer than MIN_SAMPLES readings in the window,
\* the reading it stored included, returns score 0: detectAnomaly (score >
\* 0.997) is false, and so are isSensorFault and isMoistureAnomaly for a
\* reading outside the disconnection bands.
C26_ColdStart ==
    (Scored /\ Len(ingested) < MIN_SAMPLES)
        => /\ verdict.score = "zero"
           /\ ~verdict.fault
           /\ ~verdict.moistureAnomaly
           /\ ~detectAnomaly([EngineAfterSetup EXCEPT
                                 !.bufferSize = Len(ingested)],
                             verdict.score = "above")

\* The fourth reading of a stream was scored 0.
C26_Witness ==
    /\ Scored
    /\ Len(ingested) = MIN_SAMPLES - 1
    /\ detector.bufferSize = MIN_SAMPLES - 1
    /\ verdict.score = "zero"

\* The slot that holds the k-th latest stored reading.
SlotOfLatest(k) ==
    (detector.bufferIndex + ANOMALY_BUFFER_SIZE - k) % ANOMALY_BUFFER_SIZE

\* C27: the sample count is at most ANOMALY_BUFFER_SIZE, the write index is
\* a slot of the buffer, and the window holds exactly the latest stored
\* readings: min(number stored, 24) of them, newest before the write index,
\* so that a reading stored into a full window replaced the oldest one.
C27_RollingWindow ==
    /\ detector.bufferSize <= ANOMALY_BUFFER_SIZE
    /\ detector.bufferIndex \in BufferSlots
    /\ detector.bufferSize = Min(Len(ingested), ANOMALY_BUFFER_SIZE)
    /\ \A k \in 1 .. detector.bufferSize :
          detector.sensorHistory[SlotOfLatest(k)].moisture
             = ingested[Len(ingested) - k + 1]

\* More readings than the buffer holds were stored, and the first of them
\* is no longer in the window.
C27_Witness ==
    /\ Len(ingested) > ANOMALY_BUFFER_SIZE
    /\ detector.bufferSize = ANOMALY_BUFFER_SIZE
    /\ detector.bufferIndex = Len(ingested) - ANOMALY_BUFFER_SIZE
    /\ \A k \in BufferSlots :
          detector.sensorHistory[k].moisture # ingested[1]

\* C28: for every plant type of the table and every growth stage the
\* adjusted threshold is the threshold last set by updateThresholds and not
\* reset since, or else the table's base threshold, times the plant's
\* modifier for the stage.
C28_OverrideTimesModifier ==
    \A type \in PlantTypes, stage \in GrowthStages :
        \A base \in (IF override[type] = {}
                      THEN {PLANT_DATABASE[type].moistureThreshold}
                      ELSE override[type]) :
            LookupTable_getMoistureThreshold(lookup, type, stage)
                = base * PLANT_DATABASE[type].modifier[stage]

\* A plant has an override, and its threshold for a stage whose modifier is
\* not 1.0 is the override times that modifier.
C28_Witness ==
    \E type \in PlantTypes, stage \in GrowthStages :
        /\ override[type] # {}
        /\ lookup.hasCustomThresholds[type]
        /\ PLANT_DATABASE[type].modifier[stage] # 10
        /\ \A base \in override[type] :
              /\ base # PLANT_DATABASE[type].moistureThreshold
              /\ LookupTable_getMoistureThreshold(lookup, type, stage)
                    = base * PLANT_DATABASE[type].modifier[stage]

\* Every stored node with a child has it at a larger index.
ChildIndicesIncrease ==
    \A i \in 1 .. tree.nodeCount :
        /\ tree.nodes[i].leftChild # 0 => tree.nodes[i].leftChild > i
        /\ tree.nodes[i].rightChild # 0 => tree.nodes[i].rightChild > i

\* C29: in every tree built through addNode and setRootIndex the child
\* indices increase from root to leaf, and a prediction on a tree that has a
\* root returns, from a leaf.
C29_LoadedTreeTerminates ==
    /\ ChildIndicesIncrease
    /\ (tree.nodeCount # 0 /\ tree.rootIndex # 0) =>
          \A score \in TreeScores :
              /\ DecisionTree_predict(tree, score * SCORE_UNIT).returns
              /\ DecisionTree_predict(tree, score * SCORE_UNIT).leaf

\* The ten readings of the scenario.
OutlierScenario == <<420, 430, 415, 440, 425, 418, 432, 428, 422, 900>>

\* C30: when the ten readings of the scenario have been passed to the
\* detector in that order, the last one (900) is a fault for isSensorFault,
\* its z-score is above ANOMALY_THRESHOLD, and getImmediateAction on it does
\* not run the normal pipeline.
C30_ScenarioOutlierIsFault ==
    offered = OutlierScenario =>
        /\ verdict.call = "isSensorFault" => verdict.fault
        /\ verdict.moistureAnomaly
        /\ ~getImmediateAction(
                [EngineAfterSetup EXCEPT !.bufferSize = Len(ingested) - 1],
                0, verdict.data, verdict.score = "above", now).inference.pipeline
\* C31: two consecutive runs of performSystemHealthCheck are at least
\* SYSTEM_HEALTH_CHECK_INTERVAL apart, whatever the uptime.
C31_HealthCheckInterval ==
    [][healthCheckRun' # healthCheckRun
          => \A t \in healthCheckRun :
                now' - t >= SYSTEM_HEALTH_CHECK_INTERVAL]_vars

\* C32: every telemetry message the control unit writes passes the required-
\* field validation of the gateway's parser and reaches its sensor buffer.
C32_GatewayAcceptsTelemetry ==
    \A k \in 1 .. Len(sent) : parseArduinoData(telemetryKeys(sent[k].w = 1))

\* C33: a decision call changes the engine's last-watering time of a sensor
\* index only if the call was for that index and returned a non-failsafe
\* watering decision; every other outcome leaves all the times as they were.
C33_RecordOnlyAuthorized ==
    [][\A j \in EngineSlots :
          engine'.lastWateringTime[j] # engine.lastWateringTime[j]
              => /\ inference'.sensorIndex = j
                 /\ inference'.action.shouldWater
                 /\ ~inference'.action.isFailsafe
                 /\ engine'.lastWateringTime[j] = now]_vars

\* A watering was recorded for one index while the other index kept the
\* time of its own earlier watering.
C33_Witness ==
    \E i, j \in EngineSlots :
        /\ i # j
        /\ inference.sensorIndex = i
        /\ inference.recorded
        /\ engine.lastWateringTime[i] = now
        /\ engine.lastWateringTime[j] > 0
        /\ engine.lastWateringTime[j] < now

\* Flow rate calculateWaterDuration assumes, in ml per second.
PUMP_RATE_ML_PER_S == 100

\* Volume in ml the WaterAmount enumeration documents for a tier.
TierVolume(amount) ==
    IF amount = LOW_WATER THEN 50
    ELSE IF amount = MEDIUM_WATER THEN 100
    ELSE IF amount = HIGH_WATER THEN 200
    ELSE 0

\* C34: the water amount a watering decision reports is the documented volume
\* of its tier and the volume its pump duration delivers at the assumed flow
\* rate.
C34_AmountMatchesTier ==
    (inference.pipeline /\ inference.action.shouldWater) =>
        /\ inference.action.waterAmount = TierVolume(inference.amount)
        /\ inference.action.waterAmount * 1000
              = inference.action.waterDuration * PUMP_RATE_ML_PER_S

C35_RecordedMeansStarted ==
    \A i \in Pumps :
        (pc = "serial" /\ engine.lastWateringTime[i] = now)
            => <<"PUMP_STARTED", i>> \in events

\* C39: a sensor pass adds one sample to the detector's window for each
\* sensor it processes, until the window is full.
C39_IngestedOnce ==
    [][lastSensorRead' # lastSensorRead
          => detector'.bufferSize =
                Min(ANOMALY_BUFFER_SIZE,
                    detector.bufferSize
                        + Cardinality({i \in Pumps : engineInput'[i] # {}}))]_vars

\* C37: whenever two or more pumps have failsafeTriggered set, the system
\* is in failsafe mode, operator commands included.
C37_TrippedPumpsImplySafeMode ==
    FailsafeCount >= 2 => systemFailsafeMode

\* C40: for every pump the relay is driven LOW exactly when the pump is
\* recorded Active, after every step of loop() and serialEvent().
C40_RelayMatchesPumpState ==
    \A i \in Pumps : (relay[i] = "LOW") <=> pumpStates[i].isActive

\* The operator's stop line reached loop() while a pump was running: the
\* pump went off together with its relay.
C40_Witness ==
    /\ pc = "delay"
    /\ Event("EMERGENCY_SHUTDOWN", NoSensor)
    /\ \E i \in Pumps :
          /\ cycleEnd[i] = {now}
          /\ ~pumpStates[i].isActive
          /\ relay[i] = "HIGH"
          /\ pumpStates[i].startTime < now

\* A telemetry message for sensor index i was written in the last step.
Transmitted(i) == \E k \in 1 .. Len(sent) : sent[k].s = i + 1

\* Sensor index i was read and decided on in the last step.
Processed(i) == engineInput[i] # {}

\* C38: over any number of runs in which the system stays out of failsafe
\* mode, a sensor whose readings keep being processed eventually has a
\* telemetry message written for it after each processed reading.
C38_NoTelemetryStarvation ==
    \A i \in Pumps :
        (([]~systemFailsafeMode) /\ []<>Processed(i))
            => (Processed(i) ~> Transmitted(i))

====
